---------------------------- MODULE Spec2Model ----------------------------
(***************************************************************************)
(* State-machine model of the two continuous multi-agent scenarios of      *)
(* posggym.envs.continuous: Drone Team Capture (DroneTeamCaptureModel) and *)
(* Predator-Prey (PPModel).                                                *)
(*                                                                         *)
(* Numbers.  The program computes in floating point; the model computes in *)
(* fixed point.  Lengths are integers counting 1/Scale of a length unit,   *)
(* angles are integers counting 1/AngPi of pi (so pi is AngPi), normalised *)
(* observation features count 1/Feat, and the rewards of Drone Team        *)
(* Capture count 1/Feat.  The rewards of Predator-Prey are kept as the     *)
(* doubles they are: see the section on double-precision arithmetic.       *)
(*                                                                         *)
(* Arrays.  The episode state is a NamedTuple of numpy arrays.  The model  *)
(* keeps the arrays in a heap (address -> contents); a state value holds   *)
(* addresses, so that copying an array and sharing it are different.       *)
(***************************************************************************)
EXTENDS Integers, Sequences, FiniteSets, TLC

VARIABLES
    env,      \* which scenario this run is of: "DTC", "PP" or "ENG"
    heap,     \* address -> array contents (<<>> when not allocated)
    state,    \* the episode state held by the environment: array addresses
    world,    \* model.world: entity id -> kinematic state
    ts,       \* the JointTimestep returned by the last step (or reset)
    steps,    \* number of step calls since reset
    hist      \* what the last call was given: its input state, its kind

vars == <<env, heap, state, world, ts, steps, hist>>

-----------------------------------------------------------------------------
(* Fixed-point arithmetic *)

\* np.float32 state arrays: resolution of a stored length, 1/Scale
Scale == 100
\* resolution of an angle: pi is AngPi angle units
AngPi == 1000
\* resolution of a normalised feature and of a reward: 1/Feat
Feat == 1000

Abs(a) == IF a < 0 THEN -a ELSE a
Min2(a, b) == IF a <= b THEN a ELSE b
Max2(a, b) == IF a >= b THEN a ELSE b

\* a / b rounded to the nearest integer (half away from zero), b > 0
RDiv(a, b) == (IF a < 0 THEN -1 ELSE 1) * ((2 * Abs(a) + b) \div (2 * b))

RECURSIVE SqrtIter(_, _, _)
SqrtIter(n, lo, hi) ==
    IF lo >= hi THEN lo
    ELSE LET mid == (lo + hi + 1) \div 2
         IN  IF mid * mid <= n THEN SqrtIter(n, mid, hi)
             ELSE SqrtIter(n, lo, mid - 1)

\* floor of the square root
ISqrt(n) == SqrtIter(n, 0, 46340)

\* cos(k * pi / 20) * 1000 for k = 0..10
QuarterCos == <<1000, 988, 951, 891, 809, 707, 588, 454, 309, 156, 0>>

\* math.cos of an angle that is a multiple of pi/20, times 1000
Cos1000(a) ==
    LET k == (a % (2 * AngPi)) \div (AngPi \div 20)
    IN  IF k <= 10 THEN QuarterCos[k + 1]
        ELSE IF k <= 20 THEN -QuarterCos[20 - k + 1]
        ELSE IF k <= 30 THEN -QuarterCos[k - 20 + 1]
        ELSE QuarterCos[40 - k + 1]

\* math.sin of an angle that is a multiple of pi/20, times 1000
Sin1000(a) == Cos1000(a - AngPi \div 2)

\* atan(num / den) in angle units for 0 <= num <= den, den > 0
AtanUnit(num, den) ==
    LET z == (num * 1000) \div den
    IN  (z * (250000 + 87 * (1000 - z))) \div 1000000

\* math.atan2(y, x) in angle units, in (-AngPi, AngPi]; atan2(0, 0) = 0
Atan2(y, x) ==
    LET ax == Abs(x)
        ay == Abs(y)
        first == IF ax = 0 /\ ay = 0 THEN 0
                 ELSE IF ay <= ax THEN AtanUnit(ay, ax)
                 ELSE AngPi \div 2 - AtanUnit(ax, ay)
    IN  IF x >= 0 /\ y >= 0 THEN first
        ELSE IF x < 0 /\ y >= 0 THEN AngPi - first
        ELSE IF x < 0 /\ y < 0 THEN IF first = 0 THEN AngPi ELSE first - AngPi
        ELSE -first

-----------------------------------------------------------------------------
(* posggym.envs.continuous.core: the world (not among the source files;   *)
(* modelled from the specification, sections 4.1 and 4.2)                  *)

\* PMBodyState: x, y, angle, vx, vy, vangle
Body(x, y, a, vx, vy, va) == [x |-> x, y |-> y, a |-> a, vx |-> vx, vy |-> vy, va |-> va]

\* normalize_angle: into (-pi, pi]
convert_angle_to_negpi_pi_interval(a) ==
    LET m == a % (2 * AngPi)
    IN  IF m > AngPi THEN m - 2 * AngPi ELSE m

\* remap of value from [a, b] onto [c, d], clamping outside
convert_into_interval(v, a, b, c, d) ==
    LET w == Max2(a, Min2(b, v))
    IN  c + RDiv((w - a) * (d - c), b - a)

\* the square of the 2-norm of the difference of two positions
SqDist(p, q) == (p.x - q.x) * (p.x - q.x) + (p.y - q.y) * (p.y - q.y)

\* standard 2-norm of the difference of two positions, rounded down; a
\* comparison of the 2-norm with a bound is made on the squares, so that it
\* is exact
euclidean_dist(p, q) == ISqrt((p.x - q.x) * (p.x - q.x) + (p.y - q.y) * (p.y - q.y))

\* (speed cos(heading), speed sin(heading))
linear_to_xy_velocity(speed, heading) ==
    <<RDiv(speed * Cos1000(heading), 1000), RDiv(speed * Sin1000(heading), 1000)>>

\* circular boundary, centre (r, r): a position beyond it is projected back
ProjectOnto(b, r, d) ==
    [b EXCEPT !.x = r + RDiv((b.x - r) * r, d), !.y = r + RDiv((b.y - r) * r, d)]

ProjectCircle(b, r) ==
    IF SqDist(b, [x |-> r, y |-> r]) > r * r
    THEN ProjectOnto(b, r, euclidean_dist(b, [x |-> r, y |-> r]))
    ELSE b

\* square boundary: a position beyond it is clamped to [0, size]
ClampSquare(b, size) ==
    [b EXCEPT !.x = Max2(0, Min2(size, b.x)), !.y = Max2(0, Min2(size, b.y))]

\* one forward-Euler sub-step of one entity over dt / substeps = 1 / (10 * 10)
SubStep(b) ==
    [b EXCEPT !.x = b.x + RDiv(b.vx, 100),
              !.y = b.y + RDiv(b.vy, 100),
              !.a = convert_angle_to_negpi_pi_interval(b.a + RDiv(b.va, 100))]

\* World.set_entity_state: the entity's kinematic state is replaced, all of it
set_entity_state(e, st) == st

\* simulate's integrity check: position and velocity are finite numbers
IsFinite(b) == b.x \in Int /\ b.y \in Int /\ b.vx \in Int /\ b.vy \in Int

RECURSIVE SimulateCircle(_, _, _)
\* simulate(1.0 / 10, 10) of one entity of a CircularContinuousWorld: n
\* sub-steps, each followed by the boundary; it stops at a non-finite entity
SimulateCircle(b, r, n) ==
    IF n = 0 \/ ~IsFinite(b) THEN b
    ELSE SimulateCircle(ProjectCircle(SubStep(b), r), r, n - 1)

RECURSIVE SimulateSquare(_, _, _)
\* simulate(1.0 / 10, 10) of one entity of a SquareContinuousWorld
SimulateSquare(b, size, n) ==
    IF n = 0 \/ ~IsFinite(b) THEN b
    ELSE SimulateSquare(ClampSquare(SubStep(b), size), size, n - 1)

-----------------------------------------------------------------------------
(* Arrays and the heap *)

Addr == 0 .. 7

\* the arrays a DTCState / PPState value refers to
StateAddrs(st) ==
    IF "target_state" \in DOMAIN st
    THEN {st.pursuer_states, st.prev_pursuer_states, st.target_state, st.prev_target_state}
    ELSE {st.predator_states, st.prey_states, st.prey_caught}

RECURSIVE NthFree(_, _, _)
NthFree(used, a, k) ==
    IF a \notin used THEN (IF k = 1 THEN a ELSE NthFree(used, a + 1, k - 1))
    ELSE NthFree(used, a + 1, k)

\* the k-th array allocated during a call given state st: the arrays of st are
\* alive, every other address is free
Fresh(st, k) == NthFree(StateAddrs(st), 0, k)

\* the heap after storing contents at the given addresses
Store(h, writes) ==
    [a \in Addr |-> IF a \in DOMAIN writes THEN writes[a] ELSE h[a]]

-----------------------------------------------------------------------------
(* Drone Team Capture: DroneTeamCaptureModel *)

\* num_agents
n_pursuers == 2
\* n_communicating_pursuers
n_com_pursuers == 2
\* arena_size
r_arena == 100 * Scale
\* capture_radius
capture_radius == 30 * Scale
\* observation_limit
observation_limit == 60 * Scale
max_pursuer_vel == 10 * Scale
\* target_rel_vel_bounds, in tenths
target_rel_vel_lo == 5
target_rel_vel_hi == 20
max_rel_dist_change == RDiv(max_pursuer_vel * (10 + target_rel_vel_hi), 10)
norm_max_rel_dist_change == RDiv(max_rel_dist_change * Feat, 2 * r_arena)
dyaw_limit == AngPi \div 10
DTC_R_MAX == 130 * Feat

Pursuers == 1 .. n_pursuers

\* the value of a DTCState: the contents of its arrays
DTCView(h, st) ==
    [pursuer_states |-> h[st.pursuer_states],
     prev_pursuer_states |-> h[st.prev_pursuer_states],
     target_state |-> h[st.target_state],
     prev_target_state |-> h[st.prev_target_state],
     target_vel |-> st.target_vel]

\* clip_actions: each component clipped into the agent's action space
DTC_clip_actions(vc, actions) ==
    [i \in Pursuers |->
        IF vc
        THEN <<Max2(-dyaw_limit, Min2(dyaw_limit, actions[i][1])),
               Max2(0, Min2(1, actions[i][2]))>>
        ELSE <<Max2(-dyaw_limit, Min2(dyaw_limit, actions[i][1]))>>]

DTC_abs_sum(v) == Abs(v[1]) + Abs(v[2])

\* scale_fn(z) = 50000 / (|z| + 200) ** 2, times 1000
DTC_scale_fn(z) ==
    LET zz == RDiv(Abs(z) + 200 * Scale, Scale)
    IN  RDiv(50000 * 1000, zz * zz)

\* _scale_vector with factor = factor2 / 2; final_vector counts 1/1000
DTC_scale_vector(vector, final_vector, factor2) ==
    LET vec_sum == DTC_abs_sum(vector)
        div == Max2(1, vec_sum)
        f == -RDiv(factor2 * DTC_scale_fn(vec_sum), 2)
    IN  <<final_vector[1] + RDiv(f * vector[1], div),
          final_vector[2] + RDiv(f * vector[2], div)>>

RECURSIVE DTC_repulse(_, _, _)
\* the loop over the pursuers in _get_target_move_repulsive
DTC_repulse(s, i, final_vector) ==
    IF i > n_pursuers THEN final_vector
    ELSE DTC_repulse(s, i + 1,
            DTC_scale_vector(<<s.pursuer_states[i].x - s.target_state.x,
                               s.pursuer_states[i].y - s.target_state.y>>,
                             final_vector, 2))

\* the closest point of the border to (x, y): with gamma = -atan2(cy, cx),
\* (cos gamma, -sin gamma) = (cx, cy) / |c|, and (1, 0) at the centre
DTC_virtual_wall(cx, cy, cd) ==
    IF cd = 0 THEN <<2 * r_arena, r_arena>>
    ELSE <<r_arena + RDiv(r_arena * cx, cd), r_arena + RDiv(r_arena * cy, cd)>>

\* final_vector scaled to the speed target_vel; <<>> (nan) when it is 0
DTC_scaled_move(target_vel, fv, d) ==
    IF d = 0 THEN <<>>
    ELSE <<RDiv(target_vel * fv[1], d), RDiv(target_vel * fv[2], d)>>

DTC_move_along(target_vel, fv) ==
    DTC_scaled_move(target_vel, fv, ISqrt(fv[1] * fv[1] + fv[2] * fv[2]))

DTC_wall_vector(x, y, wall) == <<wall[1] - x, wall[2] - y>>

\* _get_target_move_repulsive: <<dx, dy>>, or <<>> (nan) when the repulsions
\* cancel and the direction is 0 / 0
DTC_get_target_move_repulsive(s) ==
    DTC_move_along(s.target_vel,
        DTC_scale_vector(
            DTC_wall_vector(s.target_state.x, s.target_state.y,
                DTC_virtual_wall(s.target_state.x - r_arena, s.target_state.y - r_arena,
                                 euclidean_dist(s.target_state, [x |-> r_arena, y |-> r_arena]))),
            DTC_repulse(s, 1, <<0, 0>>),
            n_pursuers))

\* a pursuer after set_entity_state and update_entity_state(angle, vel)
DTC_commanded(p, pursuer_angle, pursuer_vel) ==
    [p EXCEPT !.a = pursuer_angle, !.vx = pursuer_vel[1], !.vy = pursuer_vel[2]]

\* the world after the set_entity_state calls of _get_next_state when the
\* evader's is left out
DTC_world_set_pursuers(w, s) ==
    [pursuer |-> [i \in Pursuers |-> set_entity_state(w.pursuer[i], s.pursuer_states[i])],
     evader |-> w.evader]

\* the world after the set_entity_state calls of _get_next_state: every
\* pursuer and the evader are overwritten from the state
DTC_world_set(w, s) ==
    [pursuer |-> [i \in Pursuers |-> set_entity_state(w.pursuer[i], s.pursuer_states[i])],
     evader |-> set_entity_state(w.evader, s.target_state)]

\* the command written to pursuer i's entity
DTC_pursuer_command(w1, s, actions, vc, i) ==
    DTC_commanded(w1.pursuer[i],
                  s.pursuer_states[i].a + actions[i][1],
                  linear_to_xy_velocity((IF ~vc THEN 1 ELSE actions[i][2]) * max_pursuer_vel,
                                        s.pursuer_states[i].a + actions[i][1]))

\* the evader after set_entity_state and update_entity_state(vel)
DTC_evader_command(t, evader_vel_xy) ==
    [t EXCEPT !.vx = evader_vel_xy[1], !.vy = evader_vel_xy[2]]

\* the world after the update_entity_state calls of _get_next_state and
\* simulate, w1 being the world after its set_entity_state calls
DTC_world_after(w1, s, actions, vc) ==
    [pursuer |-> [i \in Pursuers |->
                    SimulateCircle(DTC_pursuer_command(w1, s, actions, vc, i), r_arena, 10)],
     evader |-> SimulateCircle(
                    DTC_evader_command(w1.evader, DTC_get_target_move_repulsive(s)),
                    r_arena, 10)]

\* the array the returned state holds as prev_pursuer_states: np.copy, a new array
DTC_prev_pursuer_array(st, fresh) == fresh
\* the array the returned state holds as prev_target_state: np.copy, a new array
DTC_prev_target_array(st, fresh) == fresh

\* the previous pursuer snapshot taken after the world has moved
DTC_prev_pursuer_value_late(s, w) == w.pursuer

\* contents of the returned state's prev_pursuer_states
DTC_prev_pursuer_value(s, w) == s.pursuer_states
\* contents of the returned state's prev_target_state
DTC_prev_target_value(s, w) == s.target_state

\* the state returned by _get_next_state, its arrays allocated and filled
DTC_next_state_of(h, st, s, w2) ==
    [state |-> [pursuer_states |-> Fresh(st, 1),
                prev_pursuer_states |-> DTC_prev_pursuer_array(st, Fresh(st, 2)),
                target_state |-> Fresh(st, 3),
                prev_target_state |-> DTC_prev_target_array(st, Fresh(st, 4)),
                target_vel |-> st.target_vel],
     heap |-> Store(Store(Store(Store(h,
                  Fresh(st, 1) :> w2.pursuer),
                  DTC_prev_pursuer_array(st, Fresh(st, 2)) :> DTC_prev_pursuer_value(s, w2)),
                  Fresh(st, 3) :> w2.evader),
                  DTC_prev_target_array(st, Fresh(st, 4)) :> DTC_prev_target_value(s, w2)),
     world |-> w2]

\* _get_next_state: the returned DTCState, the heap and the world after it
DTC_get_next_state(h, st, w, actions, vc) ==
    DTC_next_state_of(h, st, DTCView(h, st),
                      DTC_world_after(DTC_world_set(w, DTCView(h, st)), DTCView(h, st),
                                      actions, vc))

\* the engagement of a visible agent
DTC_visible_engagement(alpha, dist, dist_norm_factor) ==
    [eng |-> <<RDiv(alpha * Feat, AngPi), RDiv(dist * Feat, dist_norm_factor)>>,
     visible |-> TRUE]

\* _engagement with the limit itself out of sight
DTC_out_of_sight_at_limit(agent_i, agent_j) ==
    SqDist(agent_i, agent_j) >= observation_limit * observation_limit

\* _engagement with an agent at the very position of the observer out of sight
DTC_out_of_sight_or_coincident(agent_i, agent_j) ==
    \/ SqDist(agent_i, agent_j) = 0
    \/ SqDist(agent_i, agent_j) > observation_limit * observation_limit

\* whether _engagement returns early with the not-visible result:
\* dist > self.observation_limit
DTC_out_of_sight(agent_i, agent_j) ==
    SqDist(agent_i, agent_j) > observation_limit * observation_limit

\* atan2 of rel_xy rotated by the yaw of agent_i
DTC_alpha(yaw, rx, ry) ==
    convert_angle_to_negpi_pi_interval(
        Atan2(RDiv(-Sin1000(yaw) * rx + Cos1000(yaw) * ry, 1000),
              RDiv(Cos1000(yaw) * rx + Sin1000(yaw) * ry, 1000)))

DTC_engagement_at(agent_i, agent_j, dist, dist_norm_factor) ==
    IF DTC_out_of_sight(agent_i, agent_j)
    THEN [eng |-> <<-Feat, -Feat>>, visible |-> FALSE]
    ELSE DTC_visible_engagement(
            DTC_alpha(agent_i.a, agent_i.x - agent_j.x, agent_i.y - agent_j.y),
            dist, dist_norm_factor)

\* _engagement
DTC_engagement(agent_i, agent_j, dist_norm_factor) ==
    DTC_engagement_at(agent_i, agent_j, euclidean_dist(agent_i, agent_j), dist_norm_factor)

\* the alphas _engagement can compute for an agent_j at the very position of
\* agent_i: rel_xy is (0.0, 0.0), its rotation is made of zeros whose signs
\* depend on the signs of cos(yaw) and sin(yaw) and on how the dot product is
\* summed, and atan2 gives 0.0 for (0.0, 0.0) and pi for (0.0, -0.0)
DTC_alphas_coincident(yaw) ==
    IF Cos1000(yaw) < 0 /\ Sin1000(yaw) < 0
    THEN {0, convert_angle_to_negpi_pi_interval(AngPi)}
    ELSE {0}

\* the results _engagement can return for the two agents
DTC_engagements(agent_i, agent_j, dist_norm_factor) ==
    IF SqDist(agent_i, agent_j) = 0 /\ ~DTC_out_of_sight(agent_i, agent_j)
    THEN {DTC_visible_engagement(alpha, 0, dist_norm_factor) :
             alpha \in DTC_alphas_coincident(agent_i.a)}
    ELSE {DTC_engagement(agent_i, agent_j, dist_norm_factor)}

\* the sort key of an engagement: float("inf") if t[1] == -1.0 else t[1]
DTC_sort_key(t) == IF t[2] = -Feat THEN 1000000000 ELSE t[2]

RECURSIVE DTC_insert(_, _)
DTC_insert(sorted, t) ==
    IF sorted = <<>> THEN <<t>>
    ELSE IF DTC_sort_key(t) < DTC_sort_key(Head(sorted)) THEN <<t>> \o sorted
    ELSE <<Head(sorted)>> \o DTC_insert(Tail(sorted), t)

RECURSIVE DTC_sorted(_)
\* sorted(engagement, key=...): stable
DTC_sorted(engs) ==
    IF engs = <<>> THEN <<>>
    ELSE DTC_insert(DTC_sorted(SubSeq(engs, 1, Len(engs) - 1)), engs[Len(engs)])

RECURSIVE DTC_flatten(_, _)
DTC_flatten(engs, n) ==
    IF n = 0 THEN <<>> ELSE DTC_flatten(engs, n - 1) \o engs[n]

\* turn_rate = angle_i - prev_angle_i
DTC_turn_rate(angle_i, prev_angle_i) == angle_i - prev_angle_i

\* the rates with the sentinels only when the target is in neither snapshot
DTC_rates_if_one_seen(cur, prev) ==
    IF ~cur.visible /\ ~prev.visible THEN <<-Feat, -Feat>>
    ELSE <<RDiv(convert_angle_to_negpi_pi_interval(
                    RDiv((cur.eng[1] - prev.eng[1]) * AngPi, Feat)) * Feat, AngPi),
           convert_into_interval(cur.eng[2] - prev.eng[2],
                                 -norm_max_rel_dist_change, norm_max_rel_dist_change,
                                 -Feat, Feat)>>

\* alpha_rate and dist_rate from the current and the previous engagement
DTC_rates(cur, prev) ==
    IF ~cur.visible \/ ~prev.visible THEN <<-Feat, -Feat>>
    ELSE <<RDiv(convert_angle_to_negpi_pi_interval(
                    RDiv((cur.eng[1] - prev.eng[1]) * AngPi, Feat)) * Feat, AngPi),
           convert_into_interval(cur.eng[2] - prev.eng[2],
                                 -norm_max_rel_dist_change, norm_max_rel_dist_change,
                                 -Feat, Feat)>>

\* the engagement of pursuer i with every pursuer, (-1, -1) for itself
DTC_pursuer_engagements(s, i) ==
    [j \in Pursuers |->
        IF j = i THEN <<-Feat, -Feat>>
        ELSE DTC_engagement(s.pursuer_states[i], s.pursuer_states[j], 2 * r_arena).eng]

\* angle_i, prev_angle_i: a heading normalised into [-1, 1]
DTC_norm_heading(a) == RDiv(convert_angle_to_negpi_pi_interval(a) * Feat, AngPi)

DTC_obs_vector(angle_i, prev_angle_i, cur, rates, sorted) ==
    <<angle_i, DTC_turn_rate(angle_i, prev_angle_i), cur.eng[1], cur.eng[2],
      rates[1], rates[2]>> \o DTC_flatten(sorted, n_com_pursuers)

DTC_obs_from(s, i, cur, prev) ==
    DTC_obs_vector(DTC_norm_heading(s.pursuer_states[i].a),
                   DTC_norm_heading(s.prev_pursuer_states[i].a),
                   cur, DTC_rates(cur, prev), DTC_sorted(DTC_pursuer_engagements(s, i)))

\* the observation vector of pursuer i
DTC_obs_i(s, i) ==
    DTC_obs_from(s, i,
        DTC_engagement(s.pursuer_states[i], s.target_state, 2 * r_arena),
        DTC_engagement(s.prev_pursuer_states[i], s.prev_target_state, 2 * r_arena))

\* _get_obs
DTC_get_obs(s) == [i \in Pursuers |-> DTC_obs_i(s, i)]

\* _target_distance
DTC_target_distance(s, i) == euclidean_dist(s.pursuer_states[i], s.target_state)

RECURSIVE DTC_closest_from(_, _, _)
DTC_closest_from(s, idx, best) ==
    IF idx > n_pursuers THEN best
    ELSE DTC_closest_from(s, idx + 1,
            IF SqDist(s.pursuer_states[idx], s.target_state)
                   < SqDist(s.pursuer_states[best], s.target_state)
            THEN idx ELSE best)

\* _get_closest_pursuer: the first pursuer at the least distance
DTC_get_closest_pursuer(s) == DTC_closest_from(s, 2, 1)

\* a / b times 1000, for b > 0, without leaving 32 bits
Ratio1000(a, b) ==
    LET k == b \div 1000000 + 1
        a2 == a \div k
        b2 == Max2(1, b \div k)
    IN  (a2 \div b2) * 1000 + ((a2 % b2) * 1000) \div b2

\* np.dot(unit[i], unit[closest]) with unit[p] = [p.x / dist_p, p.y / dist_p], times 1000
DTC_unit_dot(s, i, c) ==
    LET p == s.pursuer_states[i]
        q == s.pursuer_states[c]
    IN  Ratio1000(p.x * q.x + p.y * q.y, DTC_target_distance(s, i) * DTC_target_distance(s, c))

RECURSIVE DTC_q_sum(_, _, _)
DTC_q_sum(s, i, closest) ==
    IF i > n_pursuers THEN 0
    ELSE (IF i # closest THEN DTC_unit_dot(s, i, closest) + Feat ELSE 0)
         + DTC_q_sum(s, i + 1, closest)

\* whether _get_unit_vectors divides by a distance of 0
DTC_unit_vectors_finite(s) ==
    \A i \in Pursuers : SqDist(s.pursuer_states[i], s.target_state) # 0

\* _q_parameter, times 1000 (when the unit vectors are finite)
DTC_q_parameter(s) == RDiv(DTC_q_sum(s, 1, DTC_get_closest_pursuer(s)), n_pursuers)

\* a capture that counts the distance capture_radius itself
DTC_captures_at_radius(s, i) ==
    SqDist(s.pursuer_states[i], s.target_state) <= capture_radius * capture_radius

\* whether pursuer i has captured the target: target_dist < self.capture_radius
DTC_captures(s, i) ==
    SqDist(s.pursuer_states[i], s.target_state) < capture_radius * capture_radius

\* the reward of agent i, given q_formation and done
DTC_reward_i(s, i, q_formation, done) ==
    -RDiv(q_formation, 10)
    - RDiv(2 * DTC_target_distance(s, i) * Feat, 1000 * Scale)
    + (IF DTC_captures(s, i) THEN 30 * Feat ELSE 0)
    + (IF done THEN 100 * Feat ELSE 0)

DTC_rewards_given(s, finite, done) ==
    [done |-> done,
     finite |-> finite,
     reward |-> [i \in Pursuers |->
                    IF ~finite THEN 0 ELSE DTC_reward_i(s, i, DTC_q_parameter(s), done)]]

\* _get_rewards: (done, reward); the rewards are not finite numbers when
\* _q_parameter divided by 0, and reward then holds no value
DTC_get_rewards(s) ==
    DTC_rewards_given(s, DTC_unit_vectors_finite(s), \E i \in Pursuers : DTC_captures(s, i))

\* the state the observations and the rewards of step are computed from
DTC_step_observed(s, next_s) == s

\* the JointTimestep of step
DTC_timestep(obs, rew) ==
    [obs |-> obs,
     rewards |-> rew.reward,
     rewards_finite |-> rew.finite,
     terminations |-> [i \in Pursuers |-> rew.done],
     truncations |-> [i \in Pursuers |-> FALSE],
     all_done |-> rew.done,
     infos |-> [i \in Pursuers |-> <<>>]]

DTC_step_result(nxt, seen) ==
    [state |-> nxt.state, heap |-> nxt.heap, world |-> nxt.world,
     ts |-> DTC_timestep(DTC_get_obs(seen), DTC_get_rewards(seen))]

DTC_step_from(s, nxt) ==
    DTC_step_result(nxt, DTC_step_observed(s, DTCView(nxt.heap, nxt.state)))

\* step: the JointTimestep and the heap and world it leaves behind
DTC_step(h, st, w, actions, vc) ==
    DTC_step_from(DTCView(h, st),
                  DTC_get_next_state(h, st, w, DTC_clip_actions(vc, actions), vc))

\* sample_initial_state: the pursuers in a line through the centre, heading 0
DTC_initial_pursuers ==
    [i \in Pursuers |->
        Body(50 * Scale * (-(n_pursuers \div 2) + (i - 1)) + r_arena, r_arena, 0, 0, 0, 0)]

\* values rng.random() can give the target's start: within 0.7 r_arena of the
\* centre on each axis
TargetStarts ==
    {<<130 * Scale, 100 * Scale>>, <<160 * Scale, 100 * Scale>>, <<75 * Scale, 140 * Scale>>}

\* values rng.random() can give target_vel: 0.5 to 2.0 of max_pursuer_vel
TargetVels == {RDiv(target_rel_vel_lo * max_pursuer_vel, 10), RDiv(15 * max_pursuer_vel, 10)}

\* the entities registered by __init__, before any state is written to them
DTC_initial_world ==
    [pursuer |-> [i \in Pursuers |-> Body(0, 0, 0, 0, 0, 0)], evader |-> Body(0, 0, 0, 0, 0, 0)]

\* sample_initial_state: four new arrays
DTC_sample_initial_state(xy, target_vel) ==
    [state |-> [pursuer_states |-> 0, prev_pursuer_states |-> 1,
                target_state |-> 2, prev_target_state |-> 3,
                target_vel |-> target_vel],
     heap |-> [a \in Addr |->
                     CASE a = 0 -> DTC_initial_pursuers
                       [] a = 1 -> DTC_initial_pursuers
                       [] a = 2 -> Body(xy[1], xy[2], 0, 0, 0, 0)
                       [] a = 3 -> Body(xy[1], xy[2], 0, 0, 0, 0)
                       [] OTHER -> <<>>]]

\* the timestep of a reset: sample_initial_obs, nothing else yet
DTC_reset_timestep(s) ==
    [obs |-> DTC_get_obs(s),
     rewards |-> [i \in Pursuers |-> 0],
     rewards_finite |-> TRUE,
     terminations |-> [i \in Pursuers |-> FALSE],
     truncations |-> [i \in Pursuers |-> FALSE],
     all_done |-> FALSE,
     infos |-> [i \in Pursuers |-> <<>>]]

\* reset of a DroneTeamCaptureEnv built with the given velocity_control, the
\* target's start and speed drawn from the given values
DTCInit(vc, starts, vels) ==
    \E xy \in starts, tv \in vels :
        \E ini \in {DTC_sample_initial_state(xy, tv)} :
            /\ env = [name |-> "DTC", velocity_control |-> vc]
            /\ heap = ini.heap
            /\ state = ini.state
            /\ world = DTC_initial_world
            /\ ts = DTC_reset_timestep(DTCView(ini.heap, ini.state))
            /\ steps = 0
            /\ hist = [call |-> "reset", input |-> <<>>, actions |-> <<>>]

\* env.step(actions): the model's step on the held state, which it replaces
DTCApply(actions) ==
    \E r \in {DTC_step(heap, state, world, actions, env.velocity_control)} :
        /\ DTC_get_target_move_repulsive(DTCView(heap, state)) # <<>>
        /\ heap' = r.heap
        /\ state' = r.state
        /\ world' = r.world
        /\ ts' = r.ts
        /\ steps' = steps + 1
        /\ hist' = [call |-> "step", input |-> DTCView(heap, state), actions |-> actions]
        /\ UNCHANGED env

\* number of steps of an episode the model follows
MaxSteps == 2
\* number of steps of an episode of turning on the spot the model follows
MaxTurns == 12

\* the angular velocities the agents are given; 2 * dyaw_limit is clipped
DyawInputs == {-dyaw_limit, 0, 2 * dyaw_limit}

\* a step of an episode without velocity control
DTCStep ==
    /\ env.name = "DTC" /\ ~env.velocity_control
    /\ steps < MaxSteps /\ ~ts.all_done
    /\ \E actions \in [Pursuers -> {<<d>> : d \in DyawInputs}] : DTCApply(actions)

\* a step of an episode with velocity control in which every agent turns on
\* the spot (linear velocity 0)
DTCTurn ==
    /\ env.name = "DTC" /\ env.velocity_control
    /\ steps < MaxTurns /\ ~ts.all_done
    /\ \E actions \in [Pursuers -> {<<dyaw_limit, 0>>, <<0, 0>>}] : DTCApply(actions)

InitDTC == DTCInit(FALSE, TargetStarts, TargetVels)
InitDTCTurn == DTCInit(TRUE, {<<160 * Scale, 100 * Scale>>}, {RDiv(15 * max_pursuer_vel, 10)})

\* episodes of Drone Team Capture
SpecDTC == InitDTC /\ [][DTCStep]_vars
\* episodes of Drone Team Capture in which the pursuers turn on the spot
SpecDTCTurn == InitDTCTurn /\ [][DTCTurn]_vars


\* ---------------------------------------------------------------------------
\* Double-precision arithmetic of the Predator-Prey rewards
\* ---------------------------------------------------------------------------
\* The rewards of PPModel are Python floats (IEEE 754 binary64) and are
\* modelled bit for bit.  A natural number is the sequence of its digits to
\* the base Limb = 2^12, lowest first (<<>> is 0).  A positive double is
\* [m, e], m its significand of 53 bits (2^52 <= m < 2^53) and e its
\* exponent: the value is m * 2^e; 0.0 is [m |-> <<>>, e |-> 0].  Every
\* operation rounds its exact result to the nearest double, ties to the even
\* significand.
Limb == 4096
LimbBits == 12

\* the digits of a number below 2^31
RECURSIVE BFromInt(_)
BFromInt(k) == IF k = 0 THEN <<>> ELSE <<k % Limb>> \o BFromInt(k \div Limb)

\* without the zero digits at the high end
RECURSIVE BNorm(_)
BNorm(b) ==
    IF b = <<>> \/ b[Len(b)] # 0 THEN b ELSE BNorm(SubSeq(b, 1, Len(b) - 1))

BDigit(b, i) == IF i <= Len(b) THEN b[i] ELSE 0

\* the digits from the i-th on of a + b + carry c
RECURSIVE BAddFrom(_, _, _, _)
BAddFrom(a, b, i, c) ==
    IF i > Len(a) /\ i > Len(b)
    THEN BFromInt(c)
    ELSE <<(BDigit(a, i) + BDigit(b, i) + c) % Limb>>
             \o BAddFrom(a, b, i + 1, (BDigit(a, i) + BDigit(b, i) + c) \div Limb)

\* the digits from the i-th on of a * k + carry c, for 0 < k < 2^18
RECURSIVE BMulFrom(_, _, _, _)
BMulFrom(a, k, i, c) ==
    IF i > Len(a)
    THEN BFromInt(c)
    ELSE <<(a[i] * k + c) % Limb>> \o BMulFrom(a, k, i + 1, (a[i] * k + c) \div Limb)

\* the remainder of (the digits of a from the i-th on) divided by k
RECURSIVE BRemFrom(_, _, _)
BRemFrom(a, k, i) ==
    IF i > Len(a) THEN 0 ELSE (Limb * BRemFrom(a, k, i + 1) + a[i]) % k

\* the quotient of a divided by k, 0 < k < 2^18, by long division
BDiv(a, k) ==
    BNorm([i \in 1 .. Len(a) |-> (Limb * BRemFrom(a, k, i + 1) + a[i]) \div k])

\* b * 2^s
BShl(b, s) ==
    IF b = <<>> THEN <<>>
    ELSE [i \in 1 .. (s \div LimbBits) |-> 0] \o BMulFrom(b, 2 ^ (s % LimbBits), 1, 0)

\* b \div 2^s
BShr(b, s) == BDiv(SubSeq(b, (s \div LimbBits) + 1, Len(b)), 2 ^ (s % LimbBits))

\* the number of bits of a number that is not 0
BLen(b) ==
    LimbBits * (Len(b) - 1) + CHOOSE n \in 1 .. LimbBits : b[Len(b)] \div 2 ^ (n - 1) = 1

\* whether dropping the d low bits of b rounds up: more than half is dropped
\* (sticky: a non-zero part below b was dropped already), or half and the
\* significand kept is odd
FRoundUp(b, d, sticky) ==
    /\ BShr(b, d - 1)[1] % 2 = 1
    /\ sticky \/ BShr(b, d)[1] % 2 = 1 \/ BShl(BShr(b, d - 1), d - 1) # b

\* a significand that rounding up carried into a 54th bit
FNormal(m, e) ==
    IF BLen(m) = 54 THEN [m |-> BShr(m, 1), e |-> e + 1] ELSE [m |-> m, e |-> e]

\* the double nearest to b * 2^e, b not 0
FRound(b, e, sticky) ==
    IF BLen(b) <= 53
    THEN [m |-> BShl(b, 53 - BLen(b)), e |-> e - (53 - BLen(b))]
    ELSE FNormal(BAddFrom(BShr(b, BLen(b) - 53),
                          IF FRoundUp(b, BLen(b) - 53, sticky) THEN <<1>> ELSE <<>>, 1, 0),
                 e + BLen(b) - 53)

\* 0.0 and 1.0
FZero == [m |-> <<>>, e |-> 0]
FOne == [m |-> BShl(<<1>>, 52), e |-> -52]

\* k * f for an int k, 0 <= k < 2^18 (Python converts it to the double k,
\* exactly)
FMul(k, f) ==
    IF k = 0 \/ f.m = <<>> THEN FZero ELSE FRound(BMulFrom(f.m, k, 1, 0), f.e, FALSE)

\* f / k for an int k, 0 < k < 2^18
FDiv(f, k) ==
    IF f.m = <<>> THEN FZero
    ELSE FRound(BDiv(BShl(f.m, 20), k), f.e - 20, BRemFrom(BShl(f.m, 20), k, 1) # 0)

\* f + g
FAdd(f, g) ==
    IF f.m = <<>> THEN g
    ELSE IF g.m = <<>> THEN f
    ELSE IF f.e <= g.e
    THEN FRound(BAddFrom(f.m, BShl(g.m, g.e - f.e), 1, 0), f.e, FALSE)
    ELSE FRound(BAddFrom(BShl(f.m, f.e - g.e), g.m, 1, 0), g.e, FALSE)


\* ---------------------------------------------------------------------------
\* Predator-Prey: PPModel
\* ---------------------------------------------------------------------------

\* fixed-point units per unit of length of the Predator-Prey world
PPScale == 1000

\* the model's constructor arguments
num_predators == 2
num_prey == 2
n_sensors == 4
obs_dist == 1 * PPScale

\* the world: PPWorld(3, blocks=[], predator_start_positions=[(0.5, 0.5, 0),
\* (2.5, 0.5, 0)], prey_start_positions=[(1.15, 0.5, 0), (1.85, 0.5, 0)]),
\* agents of radius 0.5
PP_size == 3 * PPScale
agent_radius == PPScale \div 2
predator_start_positions ==
    <<<<PPScale \div 2, PPScale \div 2>>, <<(5 * PPScale) \div 2, PPScale \div 2>>>>
prey_start_positions ==
    <<<<(115 * PPScale) \div 100, PPScale \div 2>>, <<(185 * PPScale) \div 100, PPScale \div 2>>>>

PP_R_MAX == FOne
STEP_VEL == PPScale \div 2
COLLISION_DIST == (12 * PPScale) \div 10
\* self._per_prey_reward = self.R_MAX / self.num_prey
per_prey_reward(np) == FDiv(PP_R_MAX, np)

Predators == 1 .. num_predators
Prey == 1 .. num_prey

\* the PPState whose arrays are at the addresses st holds
PPView(h, st) ==
    [predator_states |-> h[st.predator_states],
     prey_states |-> h[st.prey_states],
     prey_caught |-> h[st.prey_caught]]

\* clip_actions: each component clipped into [-1, 1]
PP_clip_actions(actions) ==
    [i \in Predators |->
        <<Max2(-PPScale, Min2(PPScale, actions[i][1])),
          Max2(-PPScale, Min2(PPScale, actions[i][2]))>>]

\* sum of a 0/1 array
RECURSIVE PP_sum(_, _)
PP_sum(arr, n) == IF n = 0 THEN 0 ELSE arr[n] + PP_sum(arr, n - 1)

\* a move of a prey: the angle, and Vec2d(1, 0).rotated(angle) times 1000
PP_move(angle, ux, uy) == [angle |-> angle, ux |-> ux, uy |-> uy]

\* the move at math.atan2(dy, dx)
PP_move_to(dx, dy, d) ==
    IF d = 0 THEN PP_move(0, 1000, 0)
    ELSE PP_move(Atan2(dy, dx), RDiv(dx * 1000, d), RDiv(dy * 1000, d))

\* the move away from the body other
PP_move_away(prey_state, other) ==
    PP_move_to(prey_state.x - other.x, prey_state.y - other.y, euclidean_dist(prey_state, other))

\* values self.rng.uniform(0, 2 * math.pi) can give
RandomAngles == {0, (5 * AngPi) \div 4}

\* moves in a random direction
PP_random_moves == {PP_move(a, Cos1000(a), Sin1000(a)) : a \in RandomAngles}

\* pred_dists.min(), squared
RECURSIVE PP_min_pred_dist2(_, _, _)
PP_min_pred_dist2(s, prey_state, n) ==
    IF n = 1 THEN SqDist(prey_state, s.predator_states[1])
    ELSE Min2(SqDist(prey_state, s.predator_states[n]), PP_min_pred_dist2(s, prey_state, n - 1))

\* np.where(pred_dists == min_pred_dist)[0]
PP_closest_predators(s, prey_state, m2) ==
    {j \in Predators : SqDist(prey_state, s.predator_states[j]) = m2}

\* the other uncaught prey, in the order of prey_dists
PP_other_prey(s, i) ==
    SelectSeq([j \in Prey |-> j], LAMBDA j : s.prey_caught[j] = 0 /\ j # i)

\* min(prey_dists), squared
RECURSIVE PP_min_prey_dist2(_, _, _, _)
PP_min_prey_dist2(s, prey_state, others, n) ==
    IF n = 1 THEN SqDist(prey_state, s.prey_states[others[1]])
    ELSE Min2(SqDist(prey_state, s.prey_states[others[n]]),
              PP_min_prey_dist2(s, prey_state, others, n - 1))

\* np.where(prey_dists == min_prey_dist)[0]: positions in prey_dists
PP_closest_prey_idx(s, prey_state, others, m2) ==
    {k \in DOMAIN others : SqDist(prey_state, s.prey_states[others[k]]) = m2}

\* other_prey_state = state.prey_states[other_prey_idx]: the position in
\* prey_dists, counted from 0, is used as an index of state.prey_states
PP_other_prey_state(s, other_prey_idx) == s.prey_states[other_prey_idx]

\* the moves away from the closest other prey, or in a random direction
PP_moves_from_prey(s, i, others, m2) ==
    IF m2 <= obs_dist * obs_dist
    THEN {PP_move_away(s.prey_states[i], PP_other_prey_state(s, k)) :
             k \in PP_closest_prey_idx(s, s.prey_states[i], others, m2)}
    ELSE PP_random_moves

\* the moves of a prey that no predator is near
PP_moves_unseen(s, i, active_prey, others) ==
    IF active_prey = 1 THEN PP_random_moves
    ELSE PP_moves_from_prey(s, i, others,
            PP_min_prey_dist2(s, s.prey_states[i], others, Len(others)))

\* the moves of an uncaught prey
PP_moves_uncaught(s, i, m2, active_prey) ==
    IF m2 <= obs_dist * obs_dist
    THEN {PP_move_away(s.prey_states[i], s.predator_states[j]) :
             j \in PP_closest_predators(s, s.prey_states[i], m2)}
    ELSE PP_moves_unseen(s, i, active_prey, PP_other_prey(s, i))

\* the moves _get_prey_move_angles can give prey i, by the rng's draws
PP_prey_moves(s, i) ==
    IF s.prey_caught[i] = 1 THEN {PP_move(0, 1000, 0)}
    ELSE PP_moves_uncaught(s, i, PP_min_pred_dist2(s, s.prey_states[i], num_predators),
                           num_prey - PP_sum(s.prey_caught, num_prey))

\* _get_prey_move_angles: the lists it can return
PP_get_prey_move_angles(s) ==
    {m \in [Prey -> UNION {PP_prey_moves(s, i) : i \in Prey}] :
        \A i \in Prey : m[i] \in PP_prey_moves(s, i)}

\* the world after the set_entity_state calls of _get_next_state: every prey,
\* caught or not, and every predator are overwritten from the state
PP_world_set(w, s) ==
    [pred |-> [i \in Predators |-> set_entity_state(w.pred[i], s.predator_states[i])],
     prey |-> [i \in Prey |-> set_entity_state(w.prey[i], s.prey_states[i])]]

\* a prey entity after set_entity_state and, if uncaught, update_entity_state
PP_prey_command(w1, s, moves, i) ==
    IF s.prey_caught[i] = 1 THEN w1.prey[i]
    ELSE [w1.prey[i] EXCEPT !.a = moves[i].angle,
                                  !.vx = RDiv(STEP_VEL * moves[i].ux, 1000),
                                  !.vy = RDiv(STEP_VEL * moves[i].uy, 1000)]

\* a predator entity after set_entity_state and update_entity_state
\* (use_holonomic): angle = atan2(action[1], action[0]), vel = action
PP_predator_command(w1, s, actions, i) ==
    [w1.pred[i] EXCEPT !.a = Atan2(actions[i][2], actions[i][1]),
                                 !.vx = actions[i][1],
                                 !.vy = actions[i][2]]

\* the world after the commands and self.world.simulate(1.0 / 10, 10), w1
\* being the world after the set_entity_state calls
PP_world_after(w1, s, actions, moves) ==
    [pred |-> [i \in Predators |->
                  SimulateSquare(PP_predator_command(w1, s, actions, i), PP_size, 10)],
     prey |-> [i \in Prey |->
                  SimulateSquare(PP_prey_command(w1, s, moves, i), PP_size, 10)]]

\* the state written for a caught prey: [-1.0, -1.0, 0.0, 0.0, 0.0, 0.0]
PP_caught_state == Body(-PPScale, -PPScale, 0, 0, 0, 0)

\* a predator within catching range, for the boundary excluded
PP_within_open(pred_state, prey_state) ==
    SqDist(prey_state, pred_state) < COLLISION_DIST * COLLISION_DIST

\* pred_dists <= self.COLLISION_DIST for one predator
PP_within(pred_state, prey_state) ==
    SqDist(prey_state, pred_state) <= COLLISION_DIST * COLLISION_DIST

\* np.where(pred_dists <= self.COLLISION_DIST)[0]
PP_predators_within(pred_states, prey_state) ==
    {j \in Predators : PP_within(pred_states[j], prey_state)}

\* the test that marks an uncaught prey caught, on the extracted next states
PP_capture(next_pred_states, next_prey_state, prey_strength) ==
    Cardinality(PP_predators_within(next_pred_states, next_prey_state)) >= prey_strength

\* next_prey_caught
PP_next_prey_caught(s, w2, prey_strength) ==
    [i \in Prey |->
        IF s.prey_caught[i] = 1 THEN 1
        ELSE IF PP_capture(w2.pred, w2.prey[i], prey_strength) THEN 1 ELSE 0]

\* next_prey_states: the extracted states, caught prey overwritten
PP_next_prey_states(w2, caught) ==
    [i \in Prey |-> IF caught[i] = 1 THEN PP_caught_state ELSE w2.prey[i]]

\* prey_caught of the returned state without the copy: the input's array
PP_prey_caught_alias(st, fresh) == st.prey_caught

\* the array the returned state holds as prey_caught: state.prey_caught.copy()
PP_prey_caught_array(st, fresh) == fresh

\* the returned PPState, its three arrays allocated and filled
PP_next_state_of(h, st, w2, caught) ==
    [state |-> [predator_states |-> Fresh(st, 1),
                prey_states |-> Fresh(st, 2),
                prey_caught |-> PP_prey_caught_array(st, Fresh(st, 3))],
     heap |-> Store(Store(Store(h,
                  Fresh(st, 1) :> w2.pred),
                  Fresh(st, 2) :> PP_next_prey_states(w2, caught)),
                  PP_prey_caught_array(st, Fresh(st, 3)) :> caught),
     world |-> w2]

PP_next_state_in(h, st, s, w2, prey_strength) ==
    PP_next_state_of(h, st, w2, PP_next_prey_caught(s, w2, prey_strength))

\* _get_next_state, for the prey moves the rng's draws give
PP_get_next_state(h, st, w, actions, moves, prey_strength) ==
    PP_next_state_in(h, st, PPView(h, st),
                     PP_world_after(PP_world_set(w, PPView(h, st)), PPView(h, st),
                                    actions, moves),
                     prey_strength)

\* the prey caught in the next state, whenever they were caught
PP_all_caught_prey(np, s, next_s) == {i \in 1 .. np : next_s.prey_caught[i] = 1}

\* the prey newly caught by a step, of the self.num_prey = np prey
PP_new_caught_prey(np, s, next_s) ==
    {i \in 1 .. np : s.prey_caught[i] = 0 /\ next_s.prey_caught[i] = 1}

\* involved_predators of a newly caught prey: the predators within
\* COLLISION_DIST of next_state.prey_states[i]
PP_involved_predators(next_s, i) ==
    PP_predators_within(next_s.predator_states, next_s.prey_states[i])

\* rewards[j] after the loop over the prey in caught, which runs in the order
\* of their indices
RECURSIVE PP_shares(_, _, _, _), PP_share_of(_, _, _, _, _)
PP_shares(np, next_s, caught, j) ==
    IF caught = {} THEN FZero
    ELSE PP_share_of(np, next_s, caught, j, CHOOSE i \in caught : \A k \in caught : k <= i)

\* predator_reward = self._per_prey_reward / len(involved_predators), added
\* for the involved predators
PP_share_of(np, next_s, caught, j, i) ==
    FAdd(PP_shares(np, next_s, caught \ {i}, j),
         IF j \in PP_involved_predators(next_s, i)
         THEN FDiv(per_prey_reward(np), Cardinality(PP_involved_predators(next_s, i)))
         ELSE FZero)

\* the rewards of the mixed mode; the division raises ZeroDivisionError when
\* a newly caught prey has no involved predator
PP_mixed_rewards(np, next_s, caught) ==
    IF \E i \in caught : PP_involved_predators(next_s, i) = {}
    THEN [error |-> "ZeroDivisionError", reward |-> <<>>]
    ELSE [error |-> "none",
          reward |-> [j \in Predators |-> PP_shares(np, next_s, caught, j)]]

\* the rewards for the given newly caught prey
PP_rewards_for(np, next_s, caught, cooperative) ==
    IF caught = {} THEN [error |-> "none", reward |-> [j \in Predators |-> FZero]]
    ELSE IF cooperative
    THEN [error |-> "none",
          reward |-> [j \in Predators |-> FMul(Cardinality(caught), per_prey_reward(np))]]
    ELSE PP_mixed_rewards(np, next_s, caught)

\* _get_rewards of a model of self.num_prey = np prey
PP_get_rewards(np, s, next_s, cooperative) ==
    PP_rewards_for(np, next_s, PP_new_caught_prey(np, s, next_s), cooperative)

\* the least element of a non-empty set of numbers
SetMin(S) == CHOOSE x \in S : \A y \in S : x <= y

\* the parameter at which a ray meets a circle, given the parameter tca of
\* the point of the ray closest to the centre and the half chord thc: the
\* least nonnegative root that is at most max_range, else max_range
PP_ray_root(tca, thc, max_range) ==
    IF 0 <= tca - thc /\ tca - thc <= max_range THEN tca - thc
    ELSE IF tca - thc < 0 /\ 0 <= tca + thc /\ tca + thc <= max_range THEN tca + thc
    ELSE max_range

PP_ray_chord(fx, fy, tca, max_range) ==
    IF fx * fx + fy * fy - tca * tca > agent_radius * agent_radius THEN max_range
    ELSE PP_ray_root(tca, ISqrt(agent_radius * agent_radius - (fx * fx + fy * fy - tca * tca)),
                     max_range)

\* ray-circle intersection: the distance along the ray from (ox, oy) in the
\* direction (ux, uy) / 1000 to the circle of radius agent_radius about c
PP_ray_circle(ox, oy, ux, uy, c, max_range) ==
    PP_ray_chord(c[1] - ox, c[2] - oy,
                 RDiv((c[1] - ox) * ux + (c[2] - oy) * uy, 1000), max_range)

\* the distance along the ray to the edge of the square it is directed at on
\* one axis
PP_ray_edge(o, u, max_range) ==
    IF u > 0 THEN ((PP_size - o) * 1000) \div u
    ELSE IF u < 0 THEN (o * 1000) \div (-u)
    ELSE max_range

\* ray-boundary intersection for the four edges of the square
PP_ray_border(ox, oy, ux, uy, max_range) ==
    Min2(max_range, Min2(PP_ray_edge(ox, ux, max_range), PP_ray_edge(oy, uy, max_range)))

\* the direction of ray k of n_sensors rays spaced evenly over [0, 2 pi),
\* relative to the heading
PP_ray_angle(heading, k) == heading + (k * 2 * AngPi) \div n_sensors

\* one entry of check_collision_circular_rays: the nearest hit of ray k among
\* the candidates, max_range when there is none
PP_ray_hit(pos_i, k, coords, max_range) ==
    SetMin({max_range} \cup
           {PP_ray_circle(pos_i.x, pos_i.y,
                          Cos1000(PP_ray_angle(pos_i.a, k)), Sin1000(PP_ray_angle(pos_i.a, k)),
                          coords[c], max_range) : c \in DOMAIN coords})

\* check_collision_circular_rays with check_border=True and no other agents;
\* the world has no blocks
PP_obstacle_hit(pos_i, k, max_range) ==
    PP_ray_border(pos_i.x, pos_i.y,
                  Cos1000(PP_ray_angle(pos_i.a, k)), Sin1000(PP_ray_angle(pos_i.a, k)),
                  max_range)

\* the coordinates of every prey, caught or not
PP_prey_coords_all(s) ==
    [c \in Prey |-> <<s.prey_states[c].x, s.prey_states[c].y>>]

\* prey_coords: the coordinates of the uncaught prey
PP_prey_coords(s) ==
    [c \in DOMAIN SelectSeq([j \in Prey |-> j], LAMBDA j : s.prey_caught[j] = 0) |->
        <<s.prey_states[SelectSeq([j \in Prey |-> j], LAMBDA j : s.prey_caught[j] = 0)[c]].x,
          s.prey_states[SelectSeq([j \in Prey |-> j], LAMBDA j : s.prey_caught[j] = 0)[c]].y>>]

\* pred_coords: the coordinates of the other predators
PP_pred_coords(s, i) ==
    [c \in DOMAIN SelectSeq([j \in Predators |-> j], LAMBDA j : j # i) |->
        <<s.predator_states[SelectSeq([j \in Predators |-> j], LAMBDA j : j # i)[c]].x,
          s.predator_states[SelectSeq([j \in Predators |-> j], LAMBDA j : j # i)[c]].y>>]

\* sensor_readings = [obstacle_obs[k], pred_obs[k], prey_obs[k]]
PP_sensor_readings(s, i, k) ==
    <<PP_obstacle_hit(s.predator_states[i], k, obs_dist),
      PP_ray_hit(s.predator_states[i], k, PP_pred_coords(s, i), obs_dist),
      PP_ray_hit(s.predator_states[i], k, PP_prey_coords(s), obs_dist)>>

\* the index of the least reading, the last of them on a tie
PP_min_idx_last(readings) ==
    IF readings[3] <= readings[1] /\ readings[3] <= readings[2] THEN 2
    ELSE IF readings[2] <= readings[1] THEN 1
    ELSE 0

\* sensor_readings.index(min_val), counted from 0
PP_min_idx(readings) ==
    IF readings[1] <= readings[2] /\ readings[1] <= readings[3] THEN 0
    ELSE IF readings[2] <= readings[3] THEN 1
    ELSE 2

\* the entry of obs at min_idx * n_sensors + k, every other entry obs_dist
PP_obs_entry(readings, class) ==
    IF class = PP_min_idx(readings) THEN readings[class + 1] ELSE obs_dist

\* _get_local_obs
PP_get_local_obs(i, s) ==
    [e \in 1 .. 3 * n_sensors |->
        PP_obs_entry(PP_sensor_readings(s, i, (e - 1) % n_sensors), (e - 1) \div n_sensors)]

\* get_obs
PP_get_obs(s) == [i \in Predators |-> PP_get_local_obs(i, s)]

\* any(next_state.prey_caught)
PP_any_done(next_s) == \E i \in Prey : next_s.prey_caught[i] = 1

\* all(next_state.prey_caught)
PP_all_done(next_s) == \A i \in Prey : next_s.prey_caught[i] = 1

\* the JointTimestep of step, or the exception it raises
PP_timestep(next_s, rew) ==
    IF rew.error # "none" THEN [error |-> rew.error]
    ELSE [error |-> "none",
          obs |-> PP_get_obs(next_s),
          rewards |-> rew.reward,
          terminations |-> [i \in Predators |-> PP_all_done(next_s)],
          truncations |-> [i \in Predators |-> FALSE],
          all_done |-> PP_all_done(next_s),
          infos |-> [i \in Predators |-> IF PP_all_done(next_s) THEN "WIN" ELSE "none"]]

PP_step_result(s, nxt, cooperative) ==
    [state |-> nxt.state, heap |-> nxt.heap, world |-> nxt.world,
     ts |-> PP_timestep(PPView(nxt.heap, nxt.state),
                        PP_get_rewards(num_prey, s, PPView(nxt.heap, nxt.state), cooperative))]

\* step, for the prey moves the rng's draws give
PP_step(h, st, w, actions, moves, cooperative, prey_strength) ==
    PP_step_result(PPView(h, st),
                   PP_get_next_state(h, st, w, PP_clip_actions(actions), moves,
                                     prey_strength),
                   cooperative)

\* the orders self.rng.shuffle can leave a list of positions in
PP_shuffles(positions) ==
    {[k \in DOMAIN positions |-> positions[perm[k]]] :
        perm \in {f \in [DOMAIN positions -> DOMAIN positions] :
                     \A a, b \in DOMAIN positions : a # b => f[a] # f[b]}}

\* the entities registered by __init__, before any state is written to them
PP_initial_world ==
    [pred |-> [i \in Predators |-> Body(0, 0, 0, 0, 0, 0)],
     prey |-> [i \in Prey |-> Body(0, 0, 0, 0, 0, 0)]]

\* sample_initial_state: three new arrays, the agents at the first shuffled
\* start positions
PP_sample_initial_state(predator_positions, prey_positions) ==
    [state |-> [predator_states |-> 0, prey_states |-> 1, prey_caught |-> 2],
     heap |-> [a \in Addr |->
                 CASE a = 0 -> [i \in Predators |->
                                   Body(predator_positions[i][1], predator_positions[i][2],
                                        0, 0, 0, 0)]
                   [] a = 1 -> [i \in Prey |->
                                   Body(prey_positions[i][1], prey_positions[i][2], 0, 0, 0, 0)]
                   [] a = 2 -> [i \in Prey |-> 0]
                   [] OTHER -> <<>>]]

\* the timestep of a reset: sample_initial_obs, nothing else yet
PP_reset_timestep(s) ==
    [error |-> "none",
     obs |-> PP_get_obs(s),
     rewards |-> [i \in Predators |-> FZero],
     terminations |-> [i \in Predators |-> FALSE],
     truncations |-> [i \in Predators |-> FALSE],
     all_done |-> FALSE,
     infos |-> [i \in Predators |-> "none"]]

\* the values of prey_strength __init__ accepts: 0 < prey_strength <= min(4, num_predators)
PreyStrengths == 1 .. Min2(4, num_predators)

\* reset of a PPModel; total is each agent's sum of rewards since the reset
InitPP ==
    \E cooperative \in BOOLEAN, prey_strength \in PreyStrengths,
       predator_positions \in PP_shuffles(predator_start_positions),
       prey_positions \in PP_shuffles(prey_start_positions) :
        \E ini \in {PP_sample_initial_state(predator_positions, prey_positions)} :
            /\ env = [name |-> "PP", cooperative |-> cooperative,
                      prey_strength |-> prey_strength]
            /\ heap = ini.heap
            /\ state = ini.state
            /\ world = PP_initial_world
            /\ ts = PP_reset_timestep(PPView(ini.heap, ini.state))
            /\ steps = 0
            /\ hist = [call |-> "reset", input |-> <<>>, actions |-> <<>>,
                       total |-> [i \in Predators |-> FZero]]

\* env.step(actions): the model's step on the held state, which it replaces
\* unless the step raises
PPApply(actions, moves) ==
    \E r \in {PP_step(heap, state, world, actions, moves, env.cooperative, env.prey_strength)} :
        /\ heap' = IF r.ts.error = "none" THEN r.heap ELSE heap
        /\ state' = IF r.ts.error = "none" THEN r.state ELSE state
        /\ world' = r.world
        /\ ts' = r.ts
        /\ steps' = steps + 1
        /\ hist' = [call |-> "step", input |-> PPView(heap, state), actions |-> actions,
                    total |-> IF r.ts.error = "none"
                              THEN [i \in Predators |-> FAdd(hist.total[i], r.ts.rewards[i])]
                              ELSE hist.total]
        /\ UNCHANGED env

\* number of steps of a Predator-Prey episode the model follows
MaxPPSteps == 3

\* the actions the predators are given; 2.0 is clipped to 1.0
PPActions == {<<2 * PPScale, 0>>, <<-PPScale, 0>>}

\* a step of a Predator-Prey episode
PPStep ==
    /\ env.name = "PP" /\ steps < MaxPPSteps
    /\ ts.error = "none" /\ ~ts.all_done
    /\ \E actions \in [Predators -> PPActions] :
         \E moves \in PP_get_prey_move_angles(PPView(heap, state)) : PPApply(actions, moves)

\* episodes of Predator-Prey
SpecPP == InitPP /\ [][PPStep]_vars

\* episodes of either scenario
InitAll == InitDTC \/ InitPP
NextAll == DTCStep \/ PPStep
SpecAll == InitAll /\ [][NextAll]_vars

\* ---------------------------------------------------------------------------
\* The rewards of fully cooperative Predator-Prey episodes of up to MaxPrey prey
\* ---------------------------------------------------------------------------
\* _get_rewards reads nothing of the two states but prey_caught when
\* cooperative holds, so these episodes keep prey_caught alone, and a step
\* catches any number of the prey still free (which ones makes no difference
\* to the rewards: it catches those of the lowest indices).

\* the largest num_prey of these episodes, and their largest number of steps
MaxPrey == 9
MaxCoopSteps == 10

\* prey_caught with the first c of np prey caught
PP_caught_first(np, c) == [i \in 1 .. np |-> IF i <= c THEN 1 ELSE 0]

\* the number of prey caught in a state
PP_num_caught(s) == Cardinality({i \in DOMAIN s.prey_caught : s.prey_caught[i] = 1})

\* reset: np.zeros(self.num_prey)
InitCoop ==
    \E np \in 1 .. MaxPrey :
        /\ env = [name |-> "PPCoop", cooperative |-> TRUE, num_prey |-> np]
        /\ heap = <<>>
        /\ state = [prey_caught |-> PP_caught_first(np, 0)]
        /\ world = <<>>
        /\ ts = [error |-> "none", rewards |-> [i \in Predators |-> FZero], all_done |-> FALSE]
        /\ steps = 0
        /\ hist = [call |-> "reset", input |-> <<>>, total |-> [i \in Predators |-> FZero]]

\* a step that leaves the first c prey caught
CoopApply(next_s) ==
    \E rew \in {PP_get_rewards(env.num_prey, state, next_s, env.cooperative)} :
        /\ state' = next_s
        /\ ts' = [error |-> rew.error, rewards |-> rew.reward,
                  all_done |-> \A i \in 1 .. env.num_prey : next_s.prey_caught[i] = 1]
        /\ steps' = steps + 1
        /\ hist' = [call |-> "step", input |-> state,
                    total |-> [i \in Predators |-> FAdd(hist.total[i], rew.reward[i])]]
        /\ UNCHANGED <<env, heap, world>>

CoopStep ==
    /\ env.name = "PPCoop" /\ steps < MaxCoopSteps /\ ~ts.all_done
    /\ \E c \in PP_num_caught(state) .. env.num_prey :
         CoopApply([prey_caught |-> PP_caught_first(env.num_prey, c)])

SpecCoop == InitCoop /\ [][CoopStep]_vars

\* ---------------------------------------------------------------------------
\* The observations of a reset of Predator-Prey, over worlds of several start
\* positions
\* ---------------------------------------------------------------------------
\* start positions of the first predator: the centre of the world, where no
\* ray reaches a wall, and 0.5 from the wall at x = 0
ObsFirstStarts == {<<(3 * PPScale) \div 2, (3 * PPScale) \div 2>>,
                   <<PPScale \div 2, (3 * PPScale) \div 2>>}

\* start positions of the second predator and of the prey: two the ray
\* along +x from the centre touches at the same distance 0.9, one on the ray
\* along +y, one on the ray along -x, one out of sight
ObsOtherStarts ==
    {<<(24 * PPScale) \div 10, 2 * PPScale>>, <<(24 * PPScale) \div 10, PPScale>>,
     <<(3 * PPScale) \div 2, (26 * PPScale) \div 10>>,
     <<(3 * PPScale) \div 10, (3 * PPScale) \div 2>>,
     <<(29 * PPScale) \div 10, (29 * PPScale) \div 10>>}

\* sample_initial_state of a model whose world has the start positions chosen
InitObs ==
    \E first \in ObsFirstStarts, second \in ObsOtherStarts,
       prey_positions \in [Prey -> ObsOtherStarts] :
        \E ini \in {PP_sample_initial_state(<<first, second>>, prey_positions)} :
            /\ env = [name |-> "PPObs", cooperative |-> TRUE, prey_strength |-> 1]
            /\ heap = ini.heap
            /\ state = ini.state
            /\ world = PP_initial_world
            /\ ts = [error |-> "none", obs |-> <<>>]
            /\ steps = 0
            /\ hist = [call |-> "sample_initial_state", input |-> <<>>, actions |-> <<>>,
                       total |-> [i \in Predators |-> FZero]]

\* sample_initial_obs of the state sampled
ObsReset ==
    /\ env.name = "PPObs" /\ hist.call = "sample_initial_state"
    /\ ts' = PP_reset_timestep(PPView(heap, state))
    /\ hist' = [hist EXCEPT !.call = "reset"]
    /\ UNCHANGED <<env, heap, state, world, steps>>

\* resets over the start positions above, and the episodes of SpecPP
InitObsAll == InitObs \/ InitPP
NextObsAll == ObsReset \/ PPStep
SpecObs == InitObsAll /\ [][NextObsAll]_vars

\* ---------------------------------------------------------------------------
\* Rendering: episodes in which the environment is drawn between the steps
\* ---------------------------------------------------------------------------
\* The environment's own world (self.world of the Env, None until the first
\* render) is kept in env.view: ref says which World object it is, "none",
\* "copy" (an object of its own, its entities in env.view.entities) or
\* "model" (the very object model.world, its entities in the variable world).

\* World.copy(): a new World object holding the same entities in the same states
World_copy(w) == [ref |-> "copy", entities |-> w]

\* pymunk's space.step(0.0001) on one entity: it moves by its velocity
SpaceStep(b) ==
    [b EXCEPT !.x = b.x + RDiv(b.vx, 10000),
              !.y = b.y + RDiv(b.vy, 10000),
              !.a = convert_angle_to_negpi_pi_interval(b.a + RDiv(b.va, 10000))]

\* the World _render_img draws with when it keeps the model's own
Render_world_shared(view, w) ==
    IF view.ref = "none" THEN [ref |-> "model", entities |-> <<>>] ELSE view

\* the World _render_img draws with: a copy of model.world made when
\* self.world is None
Render_world(view, w) ==
    IF view.ref = "none" THEN World_copy(w) ELSE view

\* the entities of the drawn world after the set_entity_state calls of
\* DroneTeamCaptureEnv._render_img and space.step
DTC_render_entities(s) ==
    [pursuer |-> [i \in Pursuers |-> SpaceStep(s.pursuer_states[i])],
     evader |-> SpaceStep(s.target_state)]

\* the entities of the drawn world after the set_entity_state calls of
\* PredatorPreyContinuous._render_img and space.step
PP_render_entities(s) ==
    [pred |-> [i \in Predators |-> SpaceStep(s.predator_states[i])],
     prey |-> [i \in Prey |-> SpaceStep(s.prey_states[i])]]

\* number of render calls of an episode the model follows
MaxRenders == 2

\* _render_img: the drawn world gets the entities; the entities are written
\* through the reference self.world holds
RenderApply(entities) ==
    \E v \in {Render_world(env.view, world)} :
        /\ env' = [env EXCEPT !.view = [ref |-> v.ref,
                                        entities |-> IF v.ref = "model" THEN <<>>
                                                     ELSE entities],
                              !.renders = env.renders + 1]
        /\ world' = IF v.ref = "model" THEN entities ELSE world
        /\ hist' = [hist EXCEPT !.call = "render"]
        /\ UNCHANGED <<heap, state, ts, steps>>

\* env.render() of a DroneTeamCaptureEnv
DTCRender ==
    /\ env.name = "DTC" /\ env.renders < MaxRenders
    /\ RenderApply(DTC_render_entities(DTCView(heap, state)))

\* env.render() of a PredatorPreyContinuous
PPRender ==
    /\ env.name = "PP" /\ env.renders < MaxRenders
    /\ RenderApply(PP_render_entities(PPView(heap, state)))

\* reset of a DroneTeamCaptureEnv that has not been drawn yet
InitDTCRender ==
    \E xy \in TargetStarts, tv \in TargetVels :
        \E ini \in {DTC_sample_initial_state(xy, tv)} :
            /\ env = [name |-> "DTC", velocity_control |-> FALSE,
                      view |-> [ref |-> "none", entities |-> <<>>], renders |-> 0]
            /\ heap = ini.heap
            /\ state = ini.state
            /\ world = DTC_initial_world
            /\ ts = DTC_reset_timestep(DTCView(ini.heap, ini.state))
            /\ steps = 0
            /\ hist = [call |-> "reset", input |-> <<>>, actions |-> <<>>]

\* reset of a PredatorPreyContinuous that has not been drawn yet
InitPPRender ==
    \E cooperative \in BOOLEAN, prey_strength \in PreyStrengths :
        \E ini \in {PP_sample_initial_state(predator_start_positions,
                                            prey_start_positions)} :
            /\ env = [name |-> "PP", cooperative |-> cooperative,
                      prey_strength |-> prey_strength,
                      view |-> [ref |-> "none", entities |-> <<>>], renders |-> 0]
            /\ heap = ini.heap
            /\ state = ini.state
            /\ world = PP_initial_world
            /\ ts = PP_reset_timestep(PPView(ini.heap, ini.state))
            /\ steps = 0
            /\ hist = [call |-> "reset", input |-> <<>>, actions |-> <<>>,
                       total |-> [i \in Predators |-> FZero]]

\* episodes of either scenario with render calls between the steps
InitRender == InitDTCRender \/ InitPPRender
NextRender == DTCStep \/ DTCRender \/ PPStep \/ PPRender
SpecRender == InitRender /\ [][NextRender]_vars

\* ---------------------------------------------------------------------------
\* _engagement as a function of its two arguments
\* ---------------------------------------------------------------------------

\* offsets of agent_j from agent_i on each axis; 36, 48, 60 are at the
\* observation limit (3-4-5 triangles)
EngOffsets == {c * Scale : c \in {-60, -48, -36, 0, 1, 36, 48, 60, 61}}

\* yaws of agent_i
EngYaws == {0, AngPi \div 2, AngPi, -(3 * AngPi) \div 4}

\* number of calls of a function (_engagement, _get_rewards) the model follows
MaxCalls == 1

InitEng ==
    /\ env = [name |-> "ENG", velocity_control |-> FALSE]
    /\ heap = [a \in Addr |-> <<>>]
    /\ state = <<>>
    /\ world = <<>>
    /\ ts = <<>>
    /\ steps = 0
    /\ hist = [call |-> "reset", input |-> <<>>, actions |-> <<>>]

\* one call self._engagement(agent_i, agent_j, dist_norm_factor)
EngCall ==
    /\ env.name = "ENG" /\ steps < MaxCalls
    /\ \E dx \in EngOffsets, dy \in EngOffsets, yaw \in EngYaws :
         \E agent_i \in {Body(r_arena, r_arena, yaw, 0, 0, 0)},
            agent_j \in {Body(r_arena + dx, r_arena + dy, 0, 0, 0, 0)} :
              /\ ts' \in DTC_engagements(agent_i, agent_j, 2 * r_arena)
              /\ hist' = [call |-> "_engagement", input |-> <<agent_i, agent_j>>,
                          actions |-> <<>>]
    /\ steps' = steps + 1
    /\ UNCHANGED <<env, heap, state, world>>

\* calls of _engagement on pairs of agents
SpecEng == InitEng /\ [][EngCall]_vars

\* ---------------------------------------------------------------------------
\* Construction of the models
\* ---------------------------------------------------------------------------
\* A PPWorld is kept as the numbers of its predator and prey start positions
\* and the set of the entities registered in it.

\* PPModel.__init__: the asserts on the arguments alone; prey_strength is
\* <<>> for None and <<k>> for the integer k
PP_valid_arguments(a) ==
    /\ 1 < a.num_predators /\ a.num_predators <= 8
    /\ a.num_prey > 0
    /\ a.obs_dist > 0
    /\ \E prey_strength \in {IF a.prey_strength = <<>> THEN Min2(4, a.num_predators)
                             ELSE a.prey_strength[1]} :
          0 < prey_strength /\ prey_strength <= Min2(4, a.num_predators)

\* the world has enough start positions, the prey's not counted
PP_world_fits_predators(w, a) ==
    w.predator_start_positions >= a.num_predators

\* PPModel.__init__: the asserts that the world has enough start positions
PP_world_fits(w, a) ==
    /\ w.predator_start_positions >= a.num_predators
    /\ w.prey_start_positions >= a.num_prey

\* PPModel.__init__: the add_entity calls
PP_add_entities(w, a) ==
    [w EXCEPT !.entities = @ \cup {<<"pred", i - 1>> : i \in 1 .. a.num_predators}
                             \cup {<<"prey", i - 1>> : i \in 1 .. a.num_prey}]

\* PPModel(world, ...): what it raises and the world it leaves
PPModel_init(w, a) ==
    IF PP_valid_arguments(a) /\ PP_world_fits(w, a)
    THEN [error |-> "none", world |-> PP_add_entities(w, a)]
    ELSE [error |-> "AssertionError", world |-> w]

\* DroneTeamCaptureModel.__init__: the assert on num_agents
DTC_valid_num_agents(num_agents) == 1 < num_agents /\ num_agents <= 8

\* DroneTeamCaptureModel(num_agents, ...): what it raises and the entities of
\* the world it builds
DTCModel_init(num_agents) ==
    IF DTC_valid_num_agents(num_agents)
    THEN [error |-> "none",
          world |-> [entities |-> {<<"pursuer", i - 1>> : i \in 1 .. num_agents}
                                  \cup {<<"evader", 0>>}]]
    ELSE [error |-> "AssertionError", world |-> [entities |-> {}]]

\* the numbers of start positions of the worlds the model follows; the
\* default worlds have 8 predator start positions
StartCounts == {0, 2, 3, 8, 9}
\* the arguments of the constructors the model follows
AgentCounts == -1 .. 10
PPArguments ==
    [num_predators : {1, 2, 3, 8, 9}, num_prey : {0, 1, 3}, obs_dist : {0, PPScale},
     prey_strength : {<<>>, <<0>>, <<5>>}]

\* number of constructor calls the model follows
MaxNew == 1

\* before a model is constructed; a PPWorld without entities is at hand
InitNew ==
    /\ env = [name |-> "NEW"]
    /\ heap = [a \in Addr |-> <<>>]
    /\ state = <<>>
    /\ world \in [predator_start_positions : StartCounts,
                  prey_start_positions : StartCounts, entities : {{}}]
    /\ ts = [error |-> "none", entities |-> {}]
    /\ steps = 0
    /\ hist = [call |-> "none", input |-> <<>>, actions |-> <<>>]

\* PPModel(world, num_predators, num_prey, ...); ts holds what the call
\* raised and the entities of the model's world, which is the world given
NewPPModel ==
    /\ env.name = "NEW" /\ steps < MaxNew
    /\ \E a \in PPArguments :
         \E r \in {PPModel_init(world, a)} :
            /\ ts' = [error |-> r.error, entities |-> r.world.entities]
            /\ world' = r.world
            /\ hist' = [call |-> "PPModel", input |-> [world |-> world, args |-> a],
                        actions |-> <<>>]
    /\ steps' = steps + 1
    /\ UNCHANGED <<env, heap, state>>

\* DroneTeamCaptureModel(num_agents, ...); the model builds a world of its own
NewDTCModel ==
    /\ env.name = "NEW" /\ steps < MaxNew
    /\ \E num_agents \in AgentCounts :
         \E r \in {DTCModel_init(num_agents)} :
            /\ ts' = [error |-> r.error, entities |-> r.world.entities]
            /\ hist' = [call |-> "DroneTeamCaptureModel",
                        input |-> [num_agents |-> num_agents], actions |-> <<>>]
    /\ steps' = steps + 1
    /\ UNCHANGED <<env, heap, state, world>>

\* constructions of the models
NextNew == NewPPModel \/ NewDTCModel
SpecNew == InitNew /\ [][NextNew]_vars

\* ---------------------------------------------------------------------------
\* _get_rewards as a function of the state
\* ---------------------------------------------------------------------------

\* positions of the pursuers and of the target; (130, 100) and (100, 100) are
\* among each, so that a pursuer can be at the target's very position
RewPursuerSpots ==
    {<<130 * Scale, 100 * Scale>>, <<100 * Scale, 100 * Scale>>,
     <<50 * Scale, 100 * Scale>>, <<120 * Scale, 110 * Scale>>}
RewTargetSpots ==
    {<<130 * Scale, 100 * Scale>>, <<100 * Scale, 100 * Scale>>,
     <<160 * Scale, 100 * Scale>>, <<75 * Scale, 140 * Scale>>}

\* a DTCState whose pursuers and target are at the given positions
InitRew ==
    \E spots \in [Pursuers -> RewPursuerSpots], xy \in RewTargetSpots :
        \E pursuers \in {[i \in Pursuers |-> Body(spots[i][1], spots[i][2], 0, 0, 0, 0)]},
           target \in {Body(xy[1], xy[2], 0, 0, 0, 0)} :
            /\ env = [name |-> "REW", velocity_control |-> FALSE]
            /\ state = [pursuer_states |-> 0, prev_pursuer_states |-> 1,
                        target_state |-> 2, prev_target_state |-> 3,
                        target_vel |-> max_pursuer_vel]
            /\ heap = [a \in Addr |->
                          CASE a \in {0, 1} -> pursuers
                            [] a \in {2, 3} -> target
                            [] OTHER -> <<>>]
            /\ world = DTC_initial_world
            /\ ts = <<>>
            /\ steps = 0
            /\ hist = [call |-> "none", input |-> <<>>, actions |-> <<>>]

\* one call self._get_rewards(state)
RewCall ==
    /\ env.name = "REW" /\ steps < MaxCalls
    /\ ts' = DTC_get_rewards(DTCView(heap, state))
    /\ hist' = [call |-> "_get_rewards", input |-> DTCView(heap, state), actions |-> <<>>]
    /\ steps' = steps + 1
    /\ UNCHANGED <<env, heap, state, world>>

\* calls of _get_rewards on states
SpecRew == InitRew /\ [][RewCall]_vars

\* ---------------------------------------------------------------------------
\* Properties of Drone Team Capture
\* ---------------------------------------------------------------------------

IsDTCStep == env.name = "DTC" /\ hist.call = "step"

\* C1: the timestep step returns is that of the next state it returns: its
\* observations and rewards are those of the returned state, and done holds
\* exactly when some pursuer of the returned state is closer than
\* capture_radius to the target
C1_TimestepOfNextState ==
    IsDTCStep =>
        /\ ts.obs = DTC_get_obs(DTCView(heap, state))
        /\ ts.rewards = DTC_get_rewards(DTCView(heap, state)).reward
        /\ ts.all_done = (\E i \in Pursuers : DTC_captures(DTCView(heap, state), i))
        /\ \A i \in Pursuers : ts.terminations[i] = ts.all_done

\* the not-visible result of _engagement
NotVisible == [eng |-> <<-Feat, -Feat>>, visible |-> FALSE]

EngFar == SqDist(hist.input[1], hist.input[2]) > observation_limit * observation_limit
EngAtLimit == SqDist(hist.input[1], hist.input[2]) = observation_limit * observation_limit

\* C2: _engagement returns the not-visible result ((-1, -1), False) exactly
\* when the distance of the two positions is strictly greater than
\* observation_limit; at a distance equal to observation_limit the result is
\* visible, with distance dist / dist_norm_factor
C2_EngagementLimit ==
    (env.name = "ENG" /\ hist.call = "_engagement") =>
        /\ (ts = NotVisible) <=> EngFar
        /\ ts.visible <=> ~EngFar
        /\ EngAtLimit =>
             /\ ts.visible
             /\ ts.eng[2] = RDiv(observation_limit * Feat, 2 * r_arena)

\* C2 witness: a call on two agents exactly observation_limit apart, off the axes
C2_Witness ==
    /\ env.name = "ENG" /\ hist.call = "_engagement"
    /\ EngAtLimit
    /\ hist.input[2].x # hist.input[1].x /\ hist.input[2].y # hist.input[1].y
    /\ ts.visible

\* C3: every feature of every observation vector lies in [-1, 1]
C3_ObsInUnitBox ==
    env.name = "DTC" =>
        \A i \in Pursuers : \A k \in DOMAIN ts.obs[i] :
            -Feat <= ts.obs[i][k] /\ ts.obs[i][k] <= Feat

\* C4: the state holds the current and the immediately preceding snapshot: at
\* reset the previous snapshots equal the current ones; after a step they are
\* the current ones of the state the step was given; and target_vel never
\* changes
C4_PrevIsPreviousCurrent ==
    env.name = "DTC" =>
        /\ hist.call = "reset" =>
             /\ heap[state.prev_pursuer_states] = heap[state.pursuer_states]
             /\ heap[state.prev_target_state] = heap[state.target_state]
        /\ hist.call = "step" =>
             /\ heap[state.prev_pursuer_states] = hist.input.pursuer_states
             /\ heap[state.prev_target_state] = hist.input.target_state
             /\ state.target_vel = hist.input.target_vel

\* C4 witness: a second step has been taken and every snapshot has changed
C4_Witness ==
    /\ IsDTCStep /\ steps = 2
    /\ heap[state.prev_pursuer_states] # heap[state.pursuer_states]
    /\ heap[state.prev_target_state] # heap[state.target_state]
    /\ heap[state.prev_pursuer_states] # DTC_initial_pursuers

\* ---------------------------------------------------------------------------
\* Properties of step in both scenarios
\* ---------------------------------------------------------------------------

\* C5: step does not change the state it is given: every array of the input
\* state holds after the call what it held before, and the returned state
\* shares no array with it
C5_StepLeavesInputState ==
    [][steps' = steps + 1 =>
          /\ \A a \in StateAddrs(state) : heap'[a] = heap[a]
          /\ state' # state => StateAddrs(state') \cap StateAddrs(state) = {}]_vars

\* C5 witness: a Predator-Prey step has caught a prey, and the returned state
\* is a new one
C5_Witness ==
    /\ env.name = "PP" /\ hist.call = "step" /\ ts.error = "none"
    /\ heap[state.prey_caught] # hist.input.prey_caught
    /\ steps >= 2

\* C6: every position stored in the state lies inside the arena: within
\* r_arena of the centre in Drone Team Capture, both coordinates within
\* [0, size] in Predator-Prey
C6_PositionsInsideArena ==
    /\ env.name = "DTC" =>
         /\ \A i \in Pursuers :
              SqDist(heap[state.pursuer_states][i], [x |-> r_arena, y |-> r_arena])
                  <= r_arena * r_arena
         /\ SqDist(heap[state.target_state], [x |-> r_arena, y |-> r_arena])
                  <= r_arena * r_arena
    /\ env.name = "PP" =>
         /\ \A i \in Predators :
              /\ 0 <= heap[state.predator_states][i].x
              /\ heap[state.predator_states][i].x <= PP_size
              /\ 0 <= heap[state.predator_states][i].y
              /\ heap[state.predator_states][i].y <= PP_size
         /\ \A i \in Prey :
              /\ 0 <= heap[state.prey_states][i].x /\ heap[state.prey_states][i].x <= PP_size
              /\ 0 <= heap[state.prey_states][i].y /\ heap[state.prey_states][i].y <= PP_size

\* ---------------------------------------------------------------------------
\* Properties of Predator-Prey
\* ---------------------------------------------------------------------------

\* a step of Predator-Prey that returned
IsPPStep == env.name = "PP" /\ hist.call = "step" /\ ts.error = "none"

\* the predators within COLLISION_DIST (inclusive) of prey i where the
\* simulation left them
NearAfterSim(i) ==
    {j \in Predators :
        SqDist(world.pred[j], world.prey[i]) <= COLLISION_DIST * COLLISION_DIST}

\* C7: a prey uncaught in the input state is caught in the next state exactly
\* when at least prey_strength predators are, where the simulation left them,
\* within COLLISION_DIST (inclusive) of where it left the prey
C7_CaughtIffEnoughNear ==
    IsPPStep =>
        \A i \in Prey :
            hist.input.prey_caught[i] = 0 =>
                (heap[state.prey_caught][i] = 1
                    <=> Cardinality(NearAfterSim(i)) >= env.prey_strength)

\* C7 witness: with prey_strength 2 a step has caught one prey, one of its
\* predators exactly COLLISION_DIST away, and left the other prey, which has
\* one predator near, uncaught
C7_Witness ==
    /\ IsPPStep /\ env.prey_strength = 2
    /\ \E i, k \in Prey :
         /\ hist.input.prey_caught[i] = 0 /\ heap[state.prey_caught][i] = 1
         /\ \E j \in Predators :
              SqDist(world.pred[j], world.prey[i]) = COLLISION_DIST * COLLISION_DIST
         /\ heap[state.prey_caught][k] = 0 /\ Cardinality(NearAfterSim(k)) = 1

\* C8: step reports the episode ended exactly when every prey of the returned
\* state is caught: all_done and every terminated flag say so, truncated is
\* always False, the outcome is WIN exactly then, and the observations are
\* those of the returned state
C8_DoneIffAllCaught ==
    IsPPStep =>
        /\ ts.all_done <=> (\A i \in Prey : heap[state.prey_caught][i] = 1)
        /\ \A j \in Predators :
             /\ ts.terminations[j] = ts.all_done
             /\ ts.truncations[j] = FALSE
             /\ (ts.infos[j] = "WIN") <=> ts.all_done
        /\ ts.obs = PP_get_obs(PPView(heap, state))

\* C8 witness: the last prey is caught by a later step than the first
C8_Witness ==
    /\ IsPPStep /\ ts.all_done
    /\ \E i \in Prey : hist.input.prey_caught[i] = 1
    /\ \E i \in Prey : hist.input.prey_caught[i] = 0

\* a <= b for numbers given by their digits; BLeqAt compares the digits up to
\* the i-th of numbers of as many digits
RECURSIVE BLeqAt(_, _, _)
BLeqAt(a, b, i) ==
    IF i = 0 THEN TRUE
    ELSE IF a[i] # b[i] THEN a[i] < b[i]
    ELSE BLeqAt(a, b, i - 1)

BLeq(a, b) == Len(a) < Len(b) \/ (Len(a) = Len(b) /\ BLeqAt(a, b, Len(a)))

\* f <= g for doubles that are not negative
FLeq(f, g) ==
    \/ f.m = <<>>
    \/ g.m # <<>> /\ (f.e < g.e \/ (f.e = g.e /\ BLeq(f.m, g.m)))

\* the double f, 0 or at least 2^-12, differs from the fraction c / n by at
\* most h * 2^-53: | n * f * 2^64 - c * 2^64 | <= h * n * 2^11
FNear(f, c, n, h) ==
    /\ BLeq(BMulFrom(BShl(f.m, f.e + 64), n, 1, 0),
            BAddFrom(BShl(BFromInt(c), 64), BShl(BFromInt(h * n), 11), 1, 0))
    /\ BLeq(BShl(BFromInt(c), 64),
            BAddFrom(BMulFrom(BShl(f.m, f.e + 64), n, 1, 0), BShl(BFromInt(h * n), 11), 1, 0))

\* the number of prey the step just taken newly caught
NewlyCaught ==
    Cardinality({i \in 1 .. env.num_prey :
                    hist.input.prey_caught[i] = 0 /\ state.prey_caught[i] = 1})

\* C9, as stated: in the fully cooperative mode every predator receives the
\* same reward on every step, the number of prey the step newly caught
\* divided by num_prey (as a double: within 2^-52 of it), and the sum of an
\* agent's rewards since the reset never exceeds R_MAX = 1.0 and is 1.0
\* exactly when every prey is caught
C9_CooperativeReward ==
    env.name = "PPCoop" =>
        /\ hist.call = "step" =>
             \A j \in Predators :
                 /\ ts.rewards[j] = ts.rewards[1]
                 /\ FNear(ts.rewards[j], NewlyCaught, env.num_prey, 2)
        /\ \A j \in Predators :
             /\ FLeq(hist.total[j], PP_R_MAX)
             /\ (hist.total[j] = PP_R_MAX) <=> (PP_num_caught(state) = env.num_prey)

\* C9, amended: in the fully cooperative mode every predator receives the
\* same reward on every step, within 2^-52 of the number of prey the step
\* newly caught divided by num_prey, and the sum of an agent's rewards since
\* the reset is within (num_prey + 2) * 2^-53 of the number of prey caught so
\* far divided by num_prey: it is 1.0 up to that rounding error exactly when
\* every prey is caught, and exceeds R_MAX by no more than it
C9_CooperativeRewardRounded ==
    env.name = "PPCoop" =>
        /\ hist.call = "step" =>
             \A j \in Predators :
                 /\ ts.rewards[j] = ts.rewards[1]
                 /\ FNear(ts.rewards[j], NewlyCaught, env.num_prey, 2)
        /\ \A j \in Predators :
             FNear(hist.total[j], PP_num_caught(state), env.num_prey, env.num_prey + 2)

\* C9 witness: nine prey are all caught, the last by a step of its own, and
\* the sum of the rewards is above R_MAX
C9_Witness ==
    /\ env.name = "PPCoop" /\ env.num_prey = 9 /\ hist.call = "step"
    /\ PP_num_caught(state) = env.num_prey /\ NewlyCaught = 1
    /\ ~FLeq(hist.total[1], PP_R_MAX)

\* the prey the step just taken caught, by where the simulation left them
CaughtBySim ==
    {i \in Prey : hist.input.prey_caught[i] = 0
                     /\ Cardinality(NearAfterSim(i)) >= env.prey_strength}

\* C10: in the mixed mode a step that newly catches a prey returns, and pays
\* 1 / num_prey for each capture to each predator within COLLISION_DIST of
\* the prey where it was caught, and nothing for it to the others
C10_MixedReward ==
    (env.name = "PP" /\ ~env.cooperative /\ hist.call = "step" /\ CaughtBySim # {}) =>
        /\ ts.error = "none"
        /\ \A j \in Predators :
             ts.rewards[j]
                 = FMul(Cardinality({i \in CaughtBySim : j \in NearAfterSim(i)}),
                        FDiv(FOne, num_prey))

\* C11: a step records, for a prey it newly catches, the position the prey
\* had when it was caught (where the simulation left it), and leaves the
\* recorded position of a prey caught before as it was
C11_CaughtCoordRecorded ==
    IsPPStep =>
        \A i \in Prey :
            /\ (hist.input.prey_caught[i] = 0 /\ heap[state.prey_caught][i] = 1) =>
                 /\ heap[state.prey_states][i].x = world.prey[i].x
                 /\ heap[state.prey_states][i].y = world.prey[i].y
            /\ hist.input.prey_caught[i] = 1 =>
                 /\ heap[state.prey_states][i].x = hist.input.prey_states[i].x
                 /\ heap[state.prey_states][i].y = hist.input.prey_states[i].y

\* the uncaught prey other than i that are nearest to prey i in state s
NearestOtherPrey(s, i) ==
    {j \in Prey :
        /\ j # i /\ s.prey_caught[j] = 0
        /\ \A k \in Prey :
             (k # i /\ s.prey_caught[k] = 0) =>
                 SqDist(s.prey_states[i], s.prey_states[j])
                     <= SqDist(s.prey_states[i], s.prey_states[k])}

\* the predators nearest to prey i in state s
NearestPredators(s, i) ==
    {j \in Predators :
        \A k \in Predators :
            SqDist(s.prey_states[i], s.predator_states[j])
                <= SqDist(s.prey_states[i], s.predator_states[k])}

\* the moves the three rules allow prey i in state s
RuleMoves(s, i) ==
    IF s.prey_caught[i] = 1 THEN {PP_move(0, 1000, 0)}
    ELSE IF \E j \in Predators :
                SqDist(s.prey_states[i], s.predator_states[j]) <= obs_dist * obs_dist
    THEN {PP_move_away(s.prey_states[i], s.predator_states[j]) : j \in NearestPredators(s, i)}
    ELSE IF \E j \in NearestOtherPrey(s, i) :
                SqDist(s.prey_states[i], s.prey_states[j]) <= obs_dist * obs_dist
    THEN {PP_move_away(s.prey_states[i], s.prey_states[j]) : j \in NearestOtherPrey(s, i)}
    ELSE PP_random_moves

\* C12: in every state of an episode, every list of angles
\* _get_prey_move_angles can return moves each uncaught prey by the first
\* rule that applies: away from a closest predator within obs_dist, else away
\* from the closest other uncaught prey within obs_dist, else at random; a
\* caught prey gets no move
C12_PreyMoveRules ==
    (env.name = "PP" /\ ts.error = "none") =>
        \A moves \in PP_get_prey_move_angles(PPView(heap, state)) :
            \A i \in Prey : moves[i] \in RuleMoves(PPView(heap, state), i)

\* the three per-class ray casts of sensor k (counted from 0) of predator i
\* in state s: obstacle / wall, other predators, uncaught prey
ClassReadings(s, i, k) ==
    <<PP_obstacle_hit(s.predator_states[i], k, obs_dist),
      PP_ray_hit(s.predator_states[i], k,
                 [c \in 1 .. (num_predators - 1) |->
                     <<s.predator_states[IF c < i THEN c ELSE c + 1].x,
                       s.predator_states[IF c < i THEN c ELSE c + 1].y>>], obs_dist),
      PP_ray_hit(s.predator_states[i], k, PP_prey_coords(s), obs_dist)>>

\* the class of the nearest reading, the first of them on a tie
NearestClass(r) ==
    CHOOSE c \in 1 .. 3 :
        /\ \A d \in 1 .. 3 : r[c] <= r[d]
        /\ \A d \in 1 .. (c - 1) : r[d] > r[c]

Capturing(s, i) ==
    SqDist(s.pursuer_states[i], s.target_state) < capture_radius * capture_radius

\* the part of a reward that is there without a capture: -0.1 Q - 0.002 d
Shaping(s, i) ==
    -RDiv(DTC_q_parameter(s), 10)
    - RDiv(2 * euclidean_dist(s.pursuer_states[i], s.target_state) * Feat, 1000 * Scale)

C15_RewardsInRange ==
    IsDTCStep =>
        /\ ts.rewards_finite
        /\ \A i \in Pursuers : 0 <= ts.rewards[i] /\ ts.rewards[i] <= DTC_R_MAX

\* ---------------------------------------------------------------------------
\* Properties of rendering
\* ---------------------------------------------------------------------------

\* C16: rendering never alters the simulation.  A render call leaves the
\* episode state, its arrays, the last timestep and the entities of
\* model.world as they are; the world it draws is a World object of its own,
\* made at the first render and kept; and a step leaves that world as it is
\* (a step reads nothing of env.view).  So the states step returns and the
\* entities of model.world are those of the run without the render calls.
C16_RenderLeavesSimulation ==
    [][/\ hist'.call = "render" =>
            /\ heap' = heap /\ state' = state /\ ts' = ts /\ steps' = steps
            /\ world' = world
            /\ env'.view.ref = "copy"
            /\ env.view.ref # "none" => env'.view.ref = env.view.ref
       /\ hist'.call = "step" => env' = env]_vars

\* C16 witness: the environment has been drawn again after a step, and the
\* world it draws holds other entity states than model.world
C16_Witness ==
    /\ hist.call = "render" /\ env.renders >= 2 /\ steps >= 1
    /\ env.name = "PP" /\ ts.error = "none"
    /\ env.view.ref = "copy" /\ env.view.entities # world

\* ---------------------------------------------------------------------------
\* Properties of step as a function
\* ---------------------------------------------------------------------------

\* what the entities of a model's world can have been left as by other
\* histories of step calls: never written, or anywhere, moving and turning
StaleBody == Body(10 * Scale, 20 * Scale, AngPi \div 2, 5 * Scale, -3 * Scale, 100)
OtherDTCWorlds ==
    {DTC_initial_world,
     [pursuer |-> [i \in Pursuers |-> StaleBody], evader |-> StaleBody]}
OtherPPWorlds ==
    {PP_initial_world,
     [pred |-> [i \in Predators |-> StaleBody], prey |-> [i \in Prey |-> StaleBody]]}

\* the outcome of a step: the state returned (its arrays read), the
\* timestep, and the entities the world is left with
StepOutcome(r, view) == <<view, r.ts, r.world>>

\* C17: step is deterministic and independent of the history.  The outcome
\* of a step (the next state, the timestep, the world's entities) is the one
\* step gives from the same state and actions, and in Predator-Prey the same
\* draws of the rng, on a model whose world any other history has left
\* behind; Drone Team Capture's step draws nothing.
C17_StepHistoryIndependent ==
    [][/\ (env.name = "DTC" /\ hist'.call = "step") =>
            \A w \in OtherDTCWorlds :
                \E r \in {DTC_step(heap, state, w, hist'.actions, env.velocity_control)} :
                    StepOutcome(r, DTCView(r.heap, r.state))
                        = <<DTCView(heap', state'), ts', world'>>
       /\ (env.name = "PP" /\ hist'.call = "step") =>
            \E moves \in PP_get_prey_move_angles(PPView(heap, state)) :
                \A w \in OtherPPWorlds \cup {world} :
                    \E r \in {PP_step(heap, state, w, hist'.actions, moves,
                                      env.cooperative, env.prey_strength)} :
                        /\ r.ts = ts' /\ r.world = world'
                        /\ r.ts.error = "none" =>
                             PPView(r.heap, r.state) = PPView(heap', state')]_vars

\* C17 witness: a later step of an episode, from a state in which a prey is
\* caught: the world held that prey's entity elsewhere than the state does
C17_Witness ==
    IsPPStep /\ steps >= 2 /\ \E i \in Prey : hist.input.prey_caught[i] = 1

\* ---------------------------------------------------------------------------
\* Properties of the constructors
\* ---------------------------------------------------------------------------

\* the agents asked for outnumber the world's start positions
TooManyAgents ==
    \/ hist.input.args.num_predators > hist.input.world.predator_start_positions
    \/ hist.input.args.num_prey > hist.input.world.prey_start_positions

\* C18: PPModel's construction raises when num_predators exceeds the number
\* of the world's predator start positions or num_prey that of its prey start
\* positions, and then no entity has been registered: the world's entities
\* are those it had
C18_FailsBeforeRegistering ==
    (hist.call = "PPModel" /\ TooManyAgents) =>
        /\ ts.error # "none"
        /\ world.entities = hist.input.world.entities

\* C18 witness: a construction whose arguments pass every other assert, with
\* enough predator start positions and too few prey start positions, has
\* raised
C18_Witness ==
    /\ hist.call = "PPModel" /\ PP_valid_arguments(hist.input.args)
    /\ hist.input.args.num_predators <= hist.input.world.predator_start_positions
    /\ hist.input.args.num_prey > hist.input.world.prey_start_positions
    /\ ts.error # "none" /\ world.entities = {}

\* C19: DroneTeamCaptureModel's construction succeeds for every num_agents
\* from 1 to 8 and raises for every other
C19_AcceptsOneToEight ==
    hist.call = "DroneTeamCaptureModel" =>
        (ts.error = "none" <=> hist.input.num_agents \in 1 .. 8)

\* ---------------------------------------------------------------------------
\* Properties of _engagement at distance 0
\* ---------------------------------------------------------------------------

\* the last call of _engagement was given two agents at the same position
EngCoincident ==
    /\ env.name = "ENG" /\ hist.call = "_engagement"
    /\ SqDist(hist.input[1], hist.input[2]) = 0

\* C20: for two agents at the same position _engagement returns a visible
\* result whose bearing is a number in [-1, 1] and whose normalised distance
\* is 0, whatever the heading of the observer
C20_CoincidentEngagement ==
    EngCoincident =>
        /\ ts.visible
        /\ ts.eng[1] \in Int /\ -Feat <= ts.eng[1] /\ ts.eng[1] <= Feat
        /\ ts.eng[2] = 0

\* C20 witness: a call with two agents at the same position, the observer
\* heading into the third quadrant, has returned the bearing 1 (alpha = pi)
C20_Witness ==
    /\ EngCoincident /\ hist.input[1].a = -(3 * AngPi) \div 4
    /\ ts.visible /\ ts.eng = <<Feat, 0>>

\* ---------------------------------------------------------------------------
\* Properties of the reward path at distance 0
\* ---------------------------------------------------------------------------

\* C21: when a pursuer is at the very position of the target, _get_rewards
\* (through _q_parameter and _get_unit_vectors) divides by no distance of 0
\* and returns rewards that are finite numbers
C21_RewardPathGuarded ==
    (env.name = "REW" /\ hist.call = "_get_rewards"
       /\ \E i \in Pursuers :
             SqDist(hist.input.pursuer_states[i], hist.input.target_state) = 0) =>
        ts.finite

\* ---------------------------------------------------------------------------
\* Properties of the rate features of a Drone Team Capture observation
\* ---------------------------------------------------------------------------

\* the state the observations of the last timestep were computed from: the
\* initial state at reset, the state given to step after a step
ObsState == IF hist.call = "reset" THEN DTCView(heap, state) ELSE hist.input

\* the target is within the observation limit of the pursuer
TargetSeen(p, t) == SqDist(p, t) <= observation_limit * observation_limit

\* the target is visible to pursuer i in the current and in the previous snapshot
SeenInBoth(i) ==
    /\ TargetSeen(ObsState.pursuer_states[i], ObsState.target_state)
    /\ TargetSeen(ObsState.prev_pursuer_states[i], ObsState.prev_target_state)

\* the bearing and the normalised distance of the target in the previous snapshot
PrevTarget(i) ==
    DTC_engagement(ObsState.prev_pursuer_states[i], ObsState.prev_target_state,
                   2 * r_arena).eng

\* the rate features of pursuer i as the rule for a target visible in both
\* snapshots gives them, and the sentinels otherwise
RatesByRule(i) ==
    /\ ~SeenInBoth(i) => ts.obs[i][5] = -Feat /\ ts.obs[i][6] = -Feat
    /\ SeenInBoth(i) =>
         /\ ts.obs[i][5]
              = RDiv(convert_angle_to_negpi_pi_interval(
                         RDiv((ts.obs[i][3] - PrevTarget(i)[1]) * AngPi, Feat)) * Feat,
                     AngPi)
         /\ ts.obs[i][6]
              = convert_into_interval(ts.obs[i][4] - PrevTarget(i)[2],
                                      -norm_max_rel_dist_change, norm_max_rel_dist_change,
                                      -Feat, Feat)

\* C22, as stated: the rate features are both -1 whenever the target is not
\* visible in the current or in the previous snapshot; when it is visible in
\* both, the bearing rate is the wraparound-normalised difference of the
\* bearings and the range rate the rescaled difference of the normalised
\* distances; and both are 0 in the initial observation after reset
C22_RateFeatures ==
    env.name = "DTC" =>
        \A i \in Pursuers :
            /\ RatesByRule(i)
            /\ hist.call = "reset" => ts.obs[i][5] = 0 /\ ts.obs[i][6] = 0

\* C22, amended: as above, and in the initial observation after reset both
\* are 0 for a pursuer within the observation limit of the target and both
\* are -1 for a pursuer that is not
C22_RateFeaturesSeen ==
    env.name = "DTC" =>
        \A i \in Pursuers :
            /\ RatesByRule(i)
            /\ hist.call = "reset" =>
                 IF TargetSeen(ObsState.pursuer_states[i], ObsState.target_state)
                 THEN ts.obs[i][5] = 0 /\ ts.obs[i][6] = 0
                 ELSE ts.obs[i][5] = -Feat /\ ts.obs[i][6] = -Feat

\* C22 witness: after a step, one pursuer sees the target in both snapshots
\* and gets rates that are neither 0 nor a sentinel, and another does not see
\* it and gets the sentinels
C22_Witness ==
    /\ IsDTCStep
    /\ \E i \in Pursuers :
          /\ SeenInBoth(i)
          /\ ts.obs[i][5] \notin {0, -Feat, Feat}
          /\ ts.obs[i][6] \notin {0, -Feat, Feat}
    /\ \E j \in Pursuers :
          ~SeenInBoth(j) /\ ts.obs[j][5] = -Feat /\ ts.obs[j][6] = -Feat

\* ---------------------------------------------------------------------------
\* Properties of what a predator senses
\* ---------------------------------------------------------------------------

\* the reading of sensor k of predator i when the entity at p is the only candidate
HitOf(s, i, k, p) == PP_ray_hit(s.predator_states[i], k, <<<<p.x, p.y>>>>, obs_dist)

\* the coordinates a sequence of candidates holds
CoordsOf(coords) == {coords[c] : c \in DOMAIN coords}

====
